---- MODULE Spec2Model ----
(***************************************************************************)
(* Model of the mutation-capture-and-replay daemon of react-magic-draft    *)
(* (src/src/hooks/useEditorHTMLDaemon.ts).                                 *)
(*                                                                         *)
(* The watched element is a live DOM tree of nodes with identity; the      *)
(* mirror document is a detached tree that is only reached through XPath   *)
(* strings, so it is kept as a value (tag, id, class, text, children).     *)
(* An XPath string is kept as the sequence of its location steps.          *)
(***************************************************************************)
EXTENDS Integers, Sequences, FiniteSets, TLC

(***************************************************************************)
(* Bounds.                                                                 *)
(***************************************************************************)
\* number of DOM edits the user makes in one behaviour
MaxEdits == 2
\* number of nodes one replaceChildren call inserts (a fragment)
MaxFrag == 2
MaxIgnore == 1
\* largest history length the editor is configured with
MaxHistory == 2
\* number of SetFutureCaret calls between two re-renders
MaxCaretSets == 2
\* number of identifiers the focus handlers generate
MaxIds == 3
\* number of enter handlers one Enter key press awaits
MaxEnterCalls == 3

(***************************************************************************)
(* The nodes the editor and the user work with.  "root" is the watched     *)
(* element, <main class="Editor-Inner">.                                   *)
(***************************************************************************)
RootNode == "root"
None == "none"
Null == "null"

ElementNodes == {"root", "p1", "pa", "m1"}
TextNodes == {"t1", "t2"}
AllNodes == ElementNodes \cup TextNodes
TextVals == {"a", "b"}

\* node.nodeType === Node.TEXT_NODE
IsText(n) == n \in TextNodes

\* node.nodeName, lower case; "m1" is an element with the tag of the root
nodeName(n) ==
    IF n \in TextNodes THEN "#text"
    ELSE IF n \in {"root", "m1"} THEN "main"
    ELSE "p"

\* node.className; a text node has none (undefined); "m1" carries the class
\* of the watched element
className(n) ==
    IF n \in TextNodes THEN "undefined"
    ELSE IF n \in {"root", "m1"} THEN "Editor-Inner"
    ELSE ""

\* node.id; only "pa" has an id attribute
idOf(n) == IF n = "pa" THEN "a" ELSE ""

(***************************************************************************)
(* Sequence helpers.                                                       *)
(***************************************************************************)
Range(s) == {s[i] : i \in 1..Len(s)}

IndexOf(s, x) == CHOOSE i \in 1..Len(s) : s[i] = x

Without(s, x) == SelectSeq(s, LAMBDA y : y /= x)

InsertAt(s, i, x) == SubSeq(s, 1, i - 1) \o <<x>> \o SubSeq(s, i, Len(s))

RemoveAt(s, i) == SubSeq(s, 1, i - 1) \o SubSeq(s, i + 1, Len(s))

Last(s) == s[Len(s)]

Front(s) == SubSeq(s, 1, Len(s) - 1)

RECURSIVE Reverse(_)
Reverse(s) == IF s = <<>> THEN <<>> ELSE Reverse(Tail(s)) \o <<Head(s)>>

(***************************************************************************)
(* The live DOM: k is the childNodes of every node, as a function from     *)
(* node to sequence of nodes.                                              *)
(***************************************************************************)
\* node.parentNode
parentNode(k, n) ==
    IF \E p \in AllNodes : n \in Range(k[p])
    THEN CHOOSE p \in AllNodes : n \in Range(k[p])
    ELSE None

\* node.nextSibling
nextSibling(k, n) ==
    LET p == parentNode(k, n) IN
    IF p = None THEN None
    ELSE LET i == IndexOf(k[p], n) IN
         IF i = Len(k[p]) THEN None ELSE k[p][i + 1]

RECURSIVE Ancestors(_, _)
\* the inclusive ancestors of n
Ancestors(k, n) ==
    IF parentNode(k, n) = None THEN {n}
    ELSE {n} \cup Ancestors(k, parentNode(k, n))

\* the node is in the subtree the observer watches
Attached(k, n) == RootNode \in Ancestors(k, n)

\* remove n from wherever it is
Detach(k, n) == [p \in AllNodes |-> Without(k[p], n)]

\* parent.insertBefore(n, ref) succeeds: ref is null or a child of parent,
\* parent can have children and n does not contain parent
CanInsertBefore(k, parent, n, ref) ==
    /\ ~IsText(parent)
    /\ n \notin Ancestors(k, parent)
    /\ ref = None \/ ref \in Range(k[parent])

\* parent.insertBefore(n, ref): n leaves its old parent first; a ref that
\* is n itself stands for n's next sibling
insertBefore(k, parent, n, ref) ==
    LET r == IF ref = n THEN nextSibling(k, n) ELSE ref
        k1 == Detach(k, n)
    IN  [k1 EXCEPT ![parent] =
            IF r = None THEN Append(@, n)
            ELSE InsertAt(@, IndexOf(@, r), n)]

(***************************************************************************)
(* Detached trees: the mirror document and the deep clones carried by ADD  *)
(* operations.  A tree is a record; a position in it is the sequence of    *)
(* child indices that leads from its top to the node.                      *)
(***************************************************************************)
Tree(tag, id, cls, txt, ch) ==
    [tag |-> tag, id |-> id, cls |-> cls, text |-> txt, kids |-> ch]

TextTree(txt) == Tree("#text", "", "undefined", txt, <<>>)

NoTree == Tree("none", "", "", "", <<>>)

\* MirrorDocumentRef.current while there is no mirror document
NoDocument == Tree("undefined", "", "", "", <<>>)

\* the "no node" result of a lookup (0 is never a child index)
NoLoc == <<0>>

RECURSIVE cloneNode(_, _, _)
\* node.cloneNode(true): the subtree of n with the text it has now
cloneNode(k, t, n) ==
    IF IsText(n) THEN TextTree(t[n])
    ELSE Tree(nodeName(n), idOf(n), className(n), "",
              [i \in 1..Len(k[n]) |-> cloneNode(k, t, k[n][i])])

\* the content of the watched element, as the children of a body
innerHTML(k, t) == [i \in 1..Len(k[RootNode]) |-> cloneNode(k, t, k[RootNode][i])]

\* the document a DOMParser builds from that content
BodyOf(content) == Tree("body", "", "", "", content)

RECURSIVE Serialize(_)
\* element.innerHTML as a string: what the string can tell apart.  Text nodes
\* next to each other run together and an empty text node leaves no trace.
Serialize(content) ==
    IF content = <<>> THEN <<>>
    ELSE LET h == Head(content)
             rest == Serialize(Tail(content))
         IN  IF h.tag = "#text"
             THEN IF h.text = "" THEN rest
                  ELSE IF rest /= <<>> /\ Head(rest).tag = "#text"
                       THEN <<TextTree(h.text \o Head(rest).text)>> \o Tail(rest)
                  ELSE <<h>> \o rest
             ELSE <<[h EXCEPT !.kids = Serialize(h.kids)]>> \o rest

RECURSIVE Shape(_)
\* a tree without its text values: the child structure only
Shape(tr) ==
    [tr EXCEPT !.text = "", !.kids = [i \in 1..Len(tr.kids) |-> Shape(tr.kids[i])]]

RECURSIVE NodeAt(_, _)
NodeAt(tr, loc) ==
    IF loc = <<>> THEN tr ELSE NodeAt(tr.kids[Head(loc)], Tail(loc))

RECURSIVE SetAt(_, _, _)
\* the tree with the subtree at loc replaced by sub
SetAt(tr, loc, sub) ==
    IF loc = <<>> THEN sub
    ELSE [tr EXCEPT !.kids[Head(loc)] = SetAt(@, Tail(loc), sub)]

RECURSIVE Locs(_)
\* every position of the tree
Locs(tr) ==
    {<<>>} \cup UNION {{<<i>> \o l : l \in Locs(tr.kids[i])} : i \in 1..Len(tr.kids)}

RECURSIVE DocBefore(_, _)
\* document order: a node comes before its descendants and before the
\* subtrees of its later siblings
DocBefore(a, b) ==
    IF a = <<>> THEN b /= <<>>
    ELSE IF b = <<>> THEN FALSE
    ELSE IF Head(a) /= Head(b) THEN Head(a) < Head(b)
    ELSE DocBefore(Tail(a), Tail(b))

\* XPathResult.FIRST_ORDERED_NODE_TYPE
FirstInOrder(S) ==
    IF S = {} THEN NoLoc
    ELSE CHOOSE a \in S : \A b \in S : a = b \/ DocBefore(a, b)

(***************************************************************************)
(* XPath strings, as the sequence of their steps:                          *)
(*   //*[@id="a"]  ->  [t |-> "id",   v |-> "a", i |-> 0]                  *)
(*   //body        ->  [t |-> "body", v |-> "",  i |-> 0]                  *)
(*   /p[2]         ->  [t |-> "el",   v |-> "p", i |-> 2]                  *)
(*   /text()[1]    ->  [t |-> "text", v |-> "",  i |-> 1]                  *)
(*   text()[1]     ->  [t |-> "reltext", v |-> "", i |-> 1]                *)
(* The empty string is the empty sequence.                                 *)
(***************************************************************************)
Step(t, v, i) == [t |-> t, v |-> v, i |-> i]

\* the children of a node that pass the node test of a step
Matching(tr, st) ==
    SelectSeq([i \in 1..Len(tr.kids) |-> i],
              LAMBDA i : IF st.t = "text" THEN tr.kids[i].tag = "#text"
                         ELSE tr.kids[i].tag = st.v)

\* one child step from a set of context positions
StepFrom(doc, S, st) ==
    {loc \o <<Matching(NodeAt(doc, loc), st)[st.i]>> :
        loc \in {l \in S : Len(Matching(NodeAt(doc, l), st)) >= st.i}}

RECURSIVE Evaluate(_, _, _)
Evaluate(doc, S, steps) ==
    IF steps = <<>> THEN S
    ELSE Evaluate(doc, StepFrom(doc, S, Head(steps)), Tail(steps))

\* doc.evaluate(XPath, doc, null, FIRST_ORDERED_NODE_TYPE).singleNodeValue.
\* A path that does not start with // is taken from the document node,
\* whose only child is <html>: it selects nothing.
getNodeFromXPath(doc, XPath) ==
    IF doc = NoDocument THEN NoLoc ELSE
    LET first == Head(XPath)
        start == IF first.t = "id"
                 THEN {l \in Locs(doc) : /\ NodeAt(doc, l).tag /= "#text"
                                         /\ NodeAt(doc, l).id = first.v}
                 ELSE IF first.t = "body" THEN {<<>>}
                 ELSE {}
    IN  FirstInOrder(Evaluate(doc, start, Tail(XPath)))

\* the position in innerHTML's tree of a node attached under the root
RECURSIVE LocOf(_, _)
LocOf(k, n) ==
    IF n = RootNode THEN <<>>
    ELSE LocOf(k, parentNode(k, n)) \o <<IndexOf(k[parentNode(k, n)], n)>>

(***************************************************************************)
(* State.                                                                  *)
(***************************************************************************)
VARIABLES
    kids,           \* childNodes of every node of the live DOM
    text,           \* textContent of every text node
    mirror,         \* MirrorDocumentRef.current: the body of the mirror document
    MutationQueue,  \* DaemonState.MutationQueue
    records,        \* the observer's record queue: captured, not yet delivered
    observing,      \* the observer is connected to the watched element
    timer,          \* the debounce timer of flushQueueDebounced is running
    pc,             \* where FlushQueue is: "idle", "rollback", "sync" or "restart"
    OperationLogs,  \* the local OperationLogs of the running FlushQueue
    edits,          \* number of edits made so far
    finalizeCalls,  \* number of calls of FinalizeChanges
    flushing,       \* number of FlushQueue calls running past their empty-queue check
    uncaught,       \* an exception has left FlushQueue
    preEdit,        \* content of the watched element when the last flush ended
    postEdit,       \* content of the watched element when the running flush began
    mirrorPre,      \* content of the mirror when the running flush began
    compiled,       \* per record: how often the compiler has taken it from the queue
    emitted,        \* per record: operations pushed to OperationLogs
    applied,        \* per record: operations UpdateMirrorDocument has carried out
    captured,       \* the records the observer has captured
    lastFlush,      \* how the last FlushQueue call went: "none", "empty" or "batch"
    batch,          \* the queue the last non-empty FlushQueue call started with
    finalized,      \* FinalizeChanges calls of the last non-empty FlushQueue call
    life,           \* the component: "pending" (no watched element yet), "mounted",
                    \* "cleaned" (in a commit, between cleanup and effect), "unmounted"
    bound,          \* the input and paste listeners are bound
    redundant,      \* the toggleObserve calls made so far that asked for the state
                    \* the observer was in: "start", "stop"
    EditorHTMLString, \* the editor's EditorHTMLString.current: the HTML last handed
                    \* to the view layer
    IgnoreMap,      \* the ignore registry: entries [node, scope, descendants]
    FutureCaret,    \* the caret directive waiting for the next re-render
    caretSets,      \* the directives SetFutureCaret was given since the last re-render
    caretLog,       \* per re-render: the directive applied and the calls before it
    rendered,       \* number of FinalizeChanges calls the view has re-rendered
    History,        \* the history buffer: entries [html, caret]
    HistoryLength,  \* the configured option HistoryLength
    extract,        \* the running ExtractMD call and what the last one converted
    CurrentSelection, \* the anchor node of window.getSelection(), "none" when the
                    \* selection has no anchor, "noselection" when there is none
    EditorMask,     \* innerHTML of the mask element, <div class="Editor-Mask">
    classList,      \* the class lists of the editing area and of the mask
    EditingQueue,   \* EditingQueue.current: identifier -> sub-element being edited
    isEditingSubElement, \* the editor's state isEditingSubElement, as last rendered
    pendingEditing, \* the setIsEditingSubElement update waiting for the next render
    IdentifierRef,  \* per sub-element: IdentifierRef.current
    hasFocus,       \* the sub-elements whose last focus event was a focusin
    uniqueId,       \* lodash's uniqueId counter
    selection,      \* window.getSelection(): anchor node, focus node, isCollapsed
    LastActivationCache, \* LastActivationCache.current: the active-component stack
    LastActiveAnchor, \* LastActiveAnchor.current
    activated,      \* the components whose activation function was last called
                    \* with true
    switchLog,      \* the last run of ComponentActivationSwitch: the stack and
                    \* the cached anchor it found, the activation calls it made
    enter,          \* the EnterKeyHandler call of the last Enter key press: its
                    \* position, its locals and the enter handlers it invoked
    lineDoc,        \* the lines of the editing area: the element children of
                    \* the editor element with their child nodes
    lineCaret,      \* the collapsed selection in lineDoc: line, child node, offset
    keyLog,         \* the last key press handled on lineDoc: what the handler was
                    \* given and what it asked of the daemon handle
    call            \* the last call of an editor function: what it was given and
                    \* what it did with the daemon handle

domVars == <<kids, text>>
obsVars == <<MutationQueue, records, observing>>
flushVars == <<pc, OperationLogs, finalizeCalls, flushing, uncaught>>
histVars == <<preEdit, postEdit, mirrorPre, compiled, emitted, applied, captured, lastFlush,
             batch, finalized>>
lifeVars == <<life, bound>>
maskVars == <<EditorMask, classList>>
subVars == <<EditingQueue, isEditingSubElement, pendingEditing, IdentifierRef, hasFocus,
             uniqueId>>
activeVars == <<selection, LastActivationCache, LastActiveAnchor, activated, switchLog,
                enter>>
lineVars == <<lineDoc, lineCaret, keyLog>>
compVars == <<subVars, activeVars, lineVars>>
viewVars == <<maskVars, compVars>>
keyVars == <<CurrentSelection, viewVars, call>>
editorVars == <<EditorHTMLString, keyVars>>
caretVars == <<FutureCaret, caretSets, caretLog, rendered>>
handleVars == <<caretVars, History, HistoryLength, extract>>
apiVars == <<IgnoreMap, handleVars>>
vars == <<kids, text, mirror, MutationQueue, records, observing, timer, pc, life, bound,
          redundant,
          OperationLogs, edits, finalizeCalls, flushing, uncaught, preEdit,
          postEdit, mirrorPre, compiled, emitted, applied, captured, lastFlush, batch, finalized,
          EditorHTMLString, IgnoreMap, FutureCaret, caretSets, caretLog, rendered, History,
          HistoryLength, extract, CurrentSelection, EditorMask, classList, call,
          EditingQueue, isEditingSubElement, pendingEditing, IdentifierRef, hasFocus,
          uniqueId, selection, LastActivationCache, LastActiveAnchor, activated, switchLog,
          enter, lineDoc, lineCaret, keyLog>>

\* identities of the records of the user's edits; 0 marks a record of a DOM
\* change made by the daemon itself
RecordIds == 0..MaxEdits

\* a MutationRecord (previousSibling is never read by the daemon)
MutationRecord(rid, by, type, target, added, removed, next, old) ==
    [rid |-> rid, by |-> by, type |-> type, target |-> target,
     addedNodes |-> added, removedNodes |-> removed, nextSibling |-> next,
     oldValue |-> old]

\* a TOperationLog; an absent or null string field is the empty string
Operation(type, node, clone, nodeText, parent, sibling) ==
    [type |-> type, node |-> node, clone |-> clone, nodeText |-> nodeText,
     parentNode |-> parent, siblingNode |-> sibling]

\* the watched element, <main class="Editor-Inner">, rendered from the HTML
\* the mirror was parsed from: <p>a</p><p id="a">b</p>; "m1" is outside
InitKids ==
    [n \in AllNodes |->
        IF n = "root" THEN <<"p1", "pa">>
        ELSE IF n = "p1" THEN <<"t1">>
        ELSE IF n = "pa" THEN <<"t2">>
        ELSE <<>>]

InitText == [n \in TextNodes |-> IF n = "t1" THEN "a" ELSE "b"]

\* no caret directive
NoCaret == "none"

\* no ExtractMD call is running and none has converted anything
NoExtract == [pc |-> "idle", rids |-> {}, target |-> 0, done |-> "none", html |-> <<>>]

\* window.getSelection() gives null
NoSelection == "noselection"

\* no editor function has been called yet
NoCall ==
    [handler |-> "none", sel |-> None, hook |-> "nohook", parent |-> "nohook",
     args |-> <<>>, generic |-> FALSE, ops |-> <<>>, syncs |-> 0, ret |-> "undefined"]

\* the daemon state the first render builds (lines 46-60), whatever the refs
\* the sub-elements rendered by TestCompo (part_001 lines 173-174)
SubElements == {"strong1", "strong2"}

\* the initial IdentifierRef.current (part_001 line 189)
Undefined == "undefined"

\* a Selection without a range: anchorNode and focusNode are null
EmptySelection == [anchorNode |-> Null, focusNode |-> Null, isCollapsed |-> TRUE]

\* ComponentActivationSwitch has not run
NoSwitch == [before |-> <<>>, anchor |-> Null, calls |-> <<>>]

\* child nodes of a line: a text node, an inline element with its text, a
\* line break; texts are sequences of characters
TextChild(id, t) == [id |-> id, type |-> "text", text |-> t]
ElementChild(id, t) == [id |-> id, type |-> "element", text |-> t]
BrChild(id) == [id |-> id, type |-> "br", text |-> <<>>]

\* a line: an element child of the editor element; container marks the
\* attribute data-md-container
Line(id, container, childNodes) ==
    [id |-> id, container |-> container, kids |-> childNodes]

NoNode == Line("none", FALSE, <<>>)

\* documents the editor can render: plain lines, an empty line (a paragraph
\* holding one br), a container with two items
Doc1 ==
    <<Line("l1", FALSE, <<ElementChild("c1", <<"a", "b">>)>>),
      Line("l2", FALSE, <<TextChild("c2", <<"c", "d">>), ElementChild("c3", <<"e">>)>>),
      Line("l3", FALSE, <<BrChild("c4")>>)>>

Doc2 ==
    <<Line("l1", FALSE, <<ElementChild("c1", <<"x">>), TextChild("c2", <<"y", "z">>)>>),
      Line("l2", FALSE, <<ElementChild("c3", <<"c">>)>>),
      Line("l3", TRUE, <<ElementChild("c4", <<"i">>), ElementChild("c5", <<"j">>)>>),
      Line("l4", FALSE, <<TextChild("c6", <<"k">>)>>)>>

Docs == {Doc1, Doc2}

\* no key handled yet
NoKey == [handler |-> "none", caret |-> [line |-> 1, child |-> 1, pos |-> "start", node |-> "text"],
          hooks |-> <<>>, generic |-> FALSE, invoked |-> <<>>, ops |-> <<>>,
          directive |-> NoCaret, syncs |-> 0, after |-> <<>>]

\* no Enter key pressed yet
NoEnter == [pc |-> "idle", LastComponentKey |-> Null, bComponentEnterUsed |-> FALSE,
            invoked |-> <<>>, generic |-> FALSE]

InitDaemon ==
    /\ kids = InitKids
    /\ text = InitText
    /\ MutationQueue = <<>>
    /\ records = <<>>
    /\ timer = FALSE
    /\ pc = "idle"
    /\ OperationLogs = <<>>
    /\ edits = 0
    /\ finalizeCalls = 0
    /\ flushing = 0
    /\ uncaught = FALSE
    /\ preEdit = innerHTML(InitKids, InitText)
    /\ postEdit = innerHTML(InitKids, InitText)
    /\ mirrorPre = innerHTML(InitKids, InitText)
    /\ compiled = [r \in RecordIds |-> 0]
    /\ emitted = [r \in RecordIds |-> 0]
    /\ applied = [r \in RecordIds |-> 0]
    /\ captured = {}
    /\ lastFlush = "none"
    /\ batch = <<>>
    /\ finalized = 0
    /\ redundant = {}
    /\ IgnoreMap = {}
    /\ FutureCaret = NoCaret
    /\ caretSets = <<>>
    /\ caretLog = <<>>
    /\ rendered = 0
    /\ History = <<>>
    /\ extract = NoExtract
    /\ CurrentSelection = None
    /\ call = NoCall
    /\ EditingQueue = <<>>
    /\ isEditingSubElement = FALSE
    /\ pendingEditing = <<>>
    /\ IdentifierRef = [e \in SubElements |-> Undefined]
    /\ hasFocus = {}
    /\ uniqueId = 0
    /\ selection = EmptySelection
    /\ LastActivationCache = <<>>
    /\ LastActiveAnchor = Null
    /\ activated = {}
    /\ switchLog = NoSwitch
    /\ enter = NoEnter
    /\ lineCaret = [line |-> 1, child |-> 1, pos |-> "start", node |-> "text"]
    /\ keyLog = NoKey

\* the class lists as rendered (part_000 lines 1310, 1313)
RenderedClasses == [editor |-> {"Editor-Inner"}, mask |-> {"Editor-Mask"}]

\* the mask as rendered: its text child and its className
FirstRender ==
    /\ EditorMask = "Floating Mask To Hide Flickering"
    /\ classList = RenderedClasses

\* the editor's layout effect (part_000 lines 1227-1229) shows the editing
\* area and hides the mask
ShowEditor(cl) == [editor |-> cl.editor \ {"No-Vis"}, mask |-> cl.mask \cup {"Hide-It"}]

FirstLayoutEffectDone ==
    /\ EditorMask = " "
    /\ classList = ShowEditor(RenderedClasses)

\* after the first commit with both refs set: observing (line 298), listeners
\* bound (lines 335-341)
Init ==
    /\ InitDaemon
    /\ lineDoc = Doc1
    /\ FirstLayoutEffectDone
    /\ mirror = BodyOf(innerHTML(InitKids, InitText))
    /\ EditorHTMLString = Serialize(innerHTML(InitKids, InitText))
    /\ HistoryLength = MaxHistory
    /\ life = "mounted"
    /\ observing = TRUE
    /\ bound = TRUE

\* during the first render: the watched element is not attached to its ref
\* yet and the mirror document may be missing; nothing is observed or bound
LifeInit ==
    /\ InitDaemon
    /\ lineDoc = Doc1
    /\ FirstRender
    /\ mirror \in {NoDocument, BodyOf(innerHTML(InitKids, InitText))}
    /\ EditorHTMLString = IF mirror = NoDocument THEN <<>>
                          ELSE Serialize(innerHTML(InitKids, InitText))
    /\ HistoryLength = MaxHistory
    /\ life = "pending"
    /\ observing = FALSE
    /\ bound = FALSE

(***************************************************************************)
(* FlushQueue (lines 82-155) is synchronous: once it has passed its        *)
(* empty-queue check nothing else runs until it returns or throws.         *)
(***************************************************************************)
\* FlushQueue as an async function that yields between its steps
NoFlushRunningAsync == TRUE

\* no FlushQueue call and no commit is on the stack: a timer, a microtask,
\* an event handler or a caller of the daemon can run
NoFlushRunning == pc = "idle" /\ life /= "cleaned"

\* WatchElementRef.current
WatchElementRef == IF life \in {"pending", "unmounted"} THEN Null ELSE RootNode

RECURSIVE getXPathFromNode(_, _)
\* the address of a node of the live DOM
getXPathFromNode(k, node) ==
    LET parent == parentNode(k, node)
        before == IF parent = None THEN <<>>
                  ELSE SubSeq(k[parent], 1, IndexOf(k[parent], node) - 1)
        textNodeIndex == 1 + Len(SelectSeq(before, IsText))
        nodeCount == Len(SelectSeq(before,
                         LAMBDA s : ~IsText(s) /\ nodeName(s) = nodeName(node)))
    IN  IF WatchElementRef = Null THEN <<>>
        ELSE IF idOf(node) /= "" THEN <<Step("id", idOf(node), 0)>>
        ELSE IF /\ className(node) = className(RootNode)
                /\ nodeName(node) = nodeName(RootNode)
             THEN <<Step("body", "", 0)>>
        ELSE IF IsText(node)
             THEN IF parent /= None
                  THEN getXPathFromNode(k, parent) \o <<Step("text", "", textNodeIndex)>>
                  ELSE <<Step("reltext", "", textNodeIndex)>>
        ELSE IF parent = None THEN <<>>
        ELSE getXPathFromNode(k, parent) \o <<Step("el", nodeName(node), nodeCount + 1)>>

(***************************************************************************)
(* The observer (lines 53-57, 62-79).                                      *)
(***************************************************************************)
\* what the observer's record queue becomes when the DOM changes as rs
Capture(obs, recs, rs) == IF obs THEN recs \o rs ELSE recs

\* toggleObserve without its disconnect() branch
toggleObserveAlways(bObserver) == TRUE

\* a toggleObserve that flips the observer instead of setting it
toggleObserveFlip(bObserver) == ~observing

\* toggleObserve(bObserver): disconnect(), or observe(WatchElementRef.current)
\* unless there is no watched element
toggleObserve(bObserver) ==
    IF ~bObserver THEN FALSE
    ELSE IF WatchElementRef = Null THEN observing
    ELSE TRUE

\* what a toggleObserve(bObserver) call leaves in redundant
Redundant(bObserver) ==
    IF bObserver = observing
    THEN redundant \cup {IF bObserver THEN "start" ELSE "stop"}
    ELSE redundant

\* the MutationObserver callback: the delivered records are pushed to the queue
ObserverCallback ==
    /\ NoFlushRunning
    /\ records /= <<>>
    /\ MutationQueue' = MutationQueue \o records
    /\ records' = <<>>
    /\ UNCHANGED <<domVars, mirror, observing, timer, edits, flushVars, histVars, lifeVars,
                   redundant>>
    /\ UNCHANGED editorVars
    /\ UNCHANGED apiVars

(***************************************************************************)
(* Edits of the live DOM by the user (or by a script), while no handler    *)
(* runs.  Each is one DOM call and yields one MutationRecord.              *)
(***************************************************************************)
CanEdit == NoFlushRunning /\ life = "mounted" /\ edits < MaxEdits

\* the observer still follows n after its subtree was removed: the removal's
\* record has not been delivered yet
Transient(n) ==
    /\ observing
    /\ \E i \in 1..Len(records) :
          \E j \in 1..Len(records[i].removedNodes) :
              records[i].removedNodes[j] \in Ancestors(kids, n)

\* a change of n is reported to the observer (subtree: true)
Watched(n) == Attached(kids, n) \/ Transient(n)

\* nodes outside the document that can be inserted
Detached(k) == {n \in AllNodes \ {RootNode} : ~Attached(k, n) /\ parentNode(k, n) = None}

Edited(rec) ==
    /\ records' = Capture(observing, records, <<rec>>)
    /\ captured' = IF observing THEN captured \cup {rec.rid} ELSE captured
    /\ edits' = edits + 1
    /\ UNCHANGED <<mirror, MutationQueue, observing, timer, flushVars, lifeVars, redundant>>
    /\ UNCHANGED <<preEdit, postEdit, mirrorPre, compiled, emitted, applied, lastFlush,
                   batch, finalized>>
    /\ UNCHANGED editorVars
    /\ UNCHANGED apiVars

\* typing in a text node: characterData
SetText(n, v) ==
    /\ CanEdit
    /\ Watched(n)
    /\ v /= text[n]
    /\ text' = [text EXCEPT ![n] = v]
    /\ kids' = kids
    /\ Edited(MutationRecord(edits + 1, "user", "characterData", n, <<>>, <<>>, None, text[n]))

\* parent.insertBefore(n, ref)
InsertNode(parent, n, ref) ==
    /\ CanEdit
    /\ Watched(parent)
    /\ n \in Detached(kids)
    /\ CanInsertBefore(kids, parent, n, ref)
    /\ kids' = insertBefore(kids, parent, n, ref)
    /\ text' = text
    /\ Edited(MutationRecord(edits + 1, "user", "childList", parent, <<n>>, <<>>, ref, Null))

\* n.remove()
RemoveNode(n) ==
    /\ CanEdit
    /\ n /= RootNode
    /\ parentNode(kids, n) /= None
    /\ Watched(parentNode(kids, n))
    /\ kids' = Detach(kids, n)
    /\ text' = text
    /\ Edited(MutationRecord(edits + 1, "user", "childList", parentNode(kids, n),
                             <<>>, <<n>>, nextSibling(kids, n), Null))

\* the order in which a script puts detached nodes in a fragment
FragmentOrder == <<"p1", "pa", "m1", "t1", "t2">>

\* the fragments a script can build from detached nodes
Fragments(k) ==
    {f \in UNION {[1..j -> Detached(k)] : j \in 0..MaxFrag} :
        \A i, j \in 1..Len(f) :
            i < j => IndexOf(FragmentOrder, f[i]) < IndexOf(FragmentOrder, f[j])}

\* parent.replaceChildren(...f): one record with every old child removed and
\* every node of f added
ReplaceChildren(parent, f) ==
    /\ CanEdit
    /\ Watched(parent)
    /\ \A i \in 1..Len(f) : f[i] \notin Ancestors(kids, parent)
    /\ kids[parent] \o f /= <<>>
    /\ kids' = [kids EXCEPT ![parent] = f]
    /\ text' = text
    /\ Edited(MutationRecord(edits + 1, "user", "childList", parent, f, kids[parent], None, Null))

(***************************************************************************)
(* UpdateMirrorDocument (lines 237-289).  Each operator gives the new      *)
(* mirror and whether the DOM call threw.                                  *)
(***************************************************************************)
Done(doc) == [doc |-> doc, err |-> FALSE]

Thrown(doc) == [doc |-> doc, err |-> TRUE]

\* node.textContent = Text: the data of a text node, or the children of an
\* element replaced by one text node
SetTextContent(tr, Text) ==
    IF tr.tag = "#text" THEN [tr EXCEPT !.text = Text]
    ELSE [tr EXCEPT !.kids = IF Text = "" THEN <<>> ELSE <<TextTree(Text)>>]

UpdateText(doc, XPath, Text) ==
    IF XPath = <<>> THEN Done(doc)
    ELSE LET NodeResult == getNodeFromXPath(doc, XPath) IN
         IF NodeResult = NoLoc THEN Done(doc)
         ELSE Done(SetAt(doc, NodeResult, SetTextContent(NodeAt(doc, NodeResult), Text)))

UpdateRemove(doc, XPathParent, XPathSelf) ==
    IF XPathParent = <<>> \/ XPathSelf = <<>> THEN Done(doc)
    ELSE LET parent == getNodeFromXPath(doc, XPathParent)
             targetNode == getNodeFromXPath(doc, XPathSelf)
         IN  IF parent = NoLoc THEN Done(doc)
             ELSE IF targetNode = NoLoc THEN Done(doc)
             \* removeChild throws NotFoundError unless the target is a child
             ELSE IF targetNode = <<>> \/ Front(targetNode) /= parent THEN Thrown(doc)
             ELSE Done(SetAt(doc, parent,
                       [NodeAt(doc, parent) EXCEPT !.kids = RemoveAt(@, Last(targetNode))]))

UpdateAdd(doc, XPathParent, Node, XPathSibling) ==
    IF XPathParent = <<>> \/ Node = NoTree THEN Done(doc)
    ELSE LET parent == getNodeFromXPath(doc, XPathParent)
             SiblingNode == IF XPathSibling /= <<>>
                            THEN getNodeFromXPath(doc, XPathSibling)
                            ELSE NoLoc
         IN  IF parent = NoLoc THEN Done(doc)
             \* insertBefore throws HierarchyRequestError on a text parent and
             \* NotFoundError unless the sibling is a child of the parent
             ELSE IF NodeAt(doc, parent).tag = "#text" THEN Thrown(doc)
             ELSE IF SiblingNode = NoLoc
                  THEN Done(SetAt(doc, parent,
                            [NodeAt(doc, parent) EXCEPT !.kids = Append(@, Node)]))
             ELSE IF SiblingNode = <<>> \/ Front(SiblingNode) /= parent THEN Thrown(doc)
             ELSE Done(SetAt(doc, parent,
                       [NodeAt(doc, parent) EXCEPT !.kids = InsertAt(@, Last(SiblingNode), Node)]))

\* the body of the loop of SyncToMirror (lines 219-232) for one operation
ApplyOperation(doc, operation) ==
    IF operation.type = "TEXT" THEN UpdateText(doc, operation.node, operation.nodeText)
    ELSE IF operation.type = "REMOVE"
         THEN UpdateRemove(doc, operation.parentNode, operation.node)
    ELSE IF operation.type = "ADD"
         THEN UpdateAdd(doc, operation.parentNode, operation.clone, operation.siblingNode)
    ELSE Done(doc)

(***************************************************************************)
(* The compiler: the body of the while loop of FlushQueue (lines 96-146)   *)
(* for one record.  The state threaded through it is the live DOM, the     *)
(* operation log, the DOM changes it made and whether a DOM call threw.    *)
(***************************************************************************)
\* an entry of the log: the operation, with the record and the live node it
\* was derived from
Logged(op, rid, src) == [op |-> op, rid |-> rid, src |-> src]

\* the record of a DOM change the daemon makes itself
OwnRecord(target, added, removed) ==
    MutationRecord(0, "daemon", "childList", target, added, removed, None, Null)

\* the text branch without the comparison with the latest operation
CompileTextEvery(k, t, log, m) ==
    LET Op == Operation("TEXT", getXPathFromNode(k, m.target), NoTree,
                        t[m.target], <<>>, <<>>)
    IN  IF m.oldValue /= Null /\ m.type = "characterData"
        THEN Append(log, Logged(Op, m.rid, m.target))
        ELSE log

\* lines 99-114: a TEXT operation, unless it repeats the latest operation
CompileText(k, t, log, m) ==
    LET Op == Operation("TEXT", getXPathFromNode(k, m.target), NoTree,
                        t[m.target], <<>>, <<>>)
    IN  IF m.oldValue /= Null /\ m.type = "characterData"
        THEN IF log /= <<>> /\ Last(log).op = Op THEN log
             ELSE Append(log, Logged(Op, m.rid, m.target))
        ELSE log

RECURSIVE RollbackRemovedAppend(_, _, _)
\* the removed nodes put back at the end of the target, not before nextSibling
RollbackRemovedAppend(st, m, i) ==
    IF i = 0 \/ st.err THEN st
    ELSE LET n == m.removedNodes[i] IN
         IF ~CanInsertBefore(st.k, m.target, n, None)
         THEN [st EXCEPT !.err = TRUE]
         ELSE LET k2 == insertBefore(st.k, m.target, n, None)
                  Op == Operation("REMOVE", getXPathFromNode(k2, n), NoTree, "",
                                  getXPathFromNode(k2, m.target), <<>>)
              IN  RollbackRemovedAppend(
                      [k |-> k2,
                       log |-> Append(st.log, Logged(Op, m.rid, n)),
                       own |-> Append(st.own, OwnRecord(m.target, <<n>>, <<>>)),
                       err |-> FALSE], m, i - 1)

RECURSIVE RollbackRemoved(_, _, _)
\* lines 117-130, from removedNodes[i] down to removedNodes[1]
RollbackRemoved(st, m, i) ==
    IF i = 0 \/ st.err THEN st
    ELSE LET n == m.removedNodes[i] IN
         IF ~CanInsertBefore(st.k, m.target, n, m.nextSibling)
         THEN [st EXCEPT !.err = TRUE]
         ELSE LET k2 == insertBefore(st.k, m.target, n, m.nextSibling)
                  Op == Operation("REMOVE", getXPathFromNode(k2, n), NoTree, "",
                                  getXPathFromNode(k2, m.target), <<>>)
              IN  RollbackRemoved(
                      [k |-> k2,
                       log |-> Append(st.log, Logged(Op, m.rid, n)),
                       own |-> Append(st.own, OwnRecord(m.target, <<n>>, <<>>)),
                       err |-> FALSE], m, i - 1)

RECURSIVE RollbackAdded(_, _, _, _)
\* lines 133-145, from addedNodes[i] down to addedNodes[1]
RollbackAdded(st, t, m, i) ==
    IF i = 0 \/ st.err THEN st
    ELSE LET n == m.addedNodes[i]
             hasParent == parentNode(st.k, n) /= None
         IN  \* removeChild throws NotFoundError unless n is a child of target
             IF hasParent /\ parentNode(st.k, n) /= m.target
             THEN [st EXCEPT !.err = TRUE]
             ELSE LET k2 == IF hasParent THEN Detach(st.k, n) ELSE st.k
                      Op == Operation("ADD", <<>>, cloneNode(k2, t, n), "",
                                      getXPathFromNode(k2, m.target),
                                      IF m.nextSibling /= None
                                      THEN getXPathFromNode(k2, m.nextSibling)
                                      ELSE <<>>)
                  IN  RollbackAdded(
                          [k |-> k2,
                           log |-> Append(st.log, Logged(Op, m.rid, n)),
                           own |-> IF hasParent
                                   THEN Append(st.own, OwnRecord(m.target, <<>>, <<n>>))
                                   ELSE st.own,
                           err |-> FALSE], t, m, i - 1)

\* one turn of the loop for the record m
Compile(k, t, log, m) ==
    LET st0 == [k |-> k, log |-> CompileText(k, t, log, m), own |-> <<>>, err |-> FALSE]
        st1 == RollbackRemoved(st0, m, Len(m.removedNodes))
    IN  RollbackAdded(st1, t, m, Len(m.addedNodes))

\* the last record read without being taken off the queue
PopRecordPeek(q) == q

\* MutationQueue.pop(): the queue that is left
PopRecord(q) == Front(q)

\* Operations.pop(): the log that is left
PopOperation(log) == Front(log)

\* the number of entries of a log that stem from record r
CountOf(log, r) == Len(SelectSeq(log, LAMBDA e : e.rid = r))

(***************************************************************************)
(* FlushQueue (lines 82-155).  Its two loops are taken one turn at a time, *)
(* with every other action held back until it returns or throws.           *)
(***************************************************************************)
\* FlushQueue without the return on an empty queue (line 88)
FlushQueueUnchecked ==
    LET queue == MutationQueue \o records IN
    /\ records' = <<>>
    /\ MutationQueue' = queue
    /\ lastFlush' = IF queue = <<>> THEN "empty" ELSE "batch"
    /\ batch' = queue
    /\ finalized' = 0
    /\ observing' = toggleObserve(FALSE)
    /\ redundant' = Redundant(FALSE)
    /\ pc' = IF queue = <<>> THEN "sync" ELSE "rollback"
    /\ OperationLogs' = <<>>
    /\ flushing' = flushing + 1
    /\ postEdit' = innerHTML(kids, text)
    /\ mirrorPre' = mirror.kids
    /\ UNCHANGED <<finalizeCalls, uncaught>>
    /\ UNCHANGED <<preEdit, compiled, emitted, applied, captured>>
    /\ UNCHANGED <<domVars, mirror, edits, lifeVars>>
    /\ UNCHANGED editorVars
    /\ UNCHANGED apiVars

\* lines 86-90: merge the undelivered records, return on an empty queue,
\* else stop observing and enter the rollback loop
FlushQueue ==
    LET queue == MutationQueue \o records IN
    /\ records' = <<>>
    /\ MutationQueue' = queue
    /\ IF queue = <<>>
       THEN /\ lastFlush' = "empty"
            /\ UNCHANGED <<observing, flushVars, postEdit, mirrorPre, batch, finalized,
                           redundant>>
       ELSE /\ lastFlush' = "batch"
            /\ batch' = queue
            /\ finalized' = 0
            /\ observing' = toggleObserve(FALSE)
            /\ redundant' = Redundant(FALSE)
            /\ pc' = "rollback"
            /\ OperationLogs' = <<>>
            /\ flushing' = flushing + 1
            /\ postEdit' = innerHTML(kids, text)
            /\ mirrorPre' = mirror.kids
            /\ UNCHANGED <<finalizeCalls, uncaught>>
    /\ UNCHANGED <<preEdit, compiled, emitted, applied, captured>>
    /\ UNCHANGED <<domVars, mirror, edits, lifeVars>>
    /\ UNCHANGED editorVars
    /\ UNCHANGED apiVars

\* an exception leaves FlushQueue: the rest of the call is skipped
Throw ==
    /\ pc' = "idle"
    /\ OperationLogs' = <<>>
    /\ uncaught' = TRUE
    /\ flushing' = flushing - 1
    /\ UNCHANGED finalizeCalls

\* lines 96-146: one turn of the while loop
CompileRecord ==
    /\ pc = "rollback"
    /\ MutationQueue /= <<>>
    /\ LET mutation == Last(MutationQueue)
           st == Compile(kids, text, OperationLogs, mutation)
       IN  /\ MutationQueue' = PopRecord(MutationQueue)
           /\ kids' = st.k
           /\ records' = Capture(observing, records, st.own)
           /\ compiled' = [compiled EXCEPT ![mutation.rid] = @ + 1]
           /\ emitted' = [emitted EXCEPT ![mutation.rid] =
                             @ + CountOf(st.log, mutation.rid) - CountOf(OperationLogs, mutation.rid)]
           /\ IF st.err
              THEN Throw
              ELSE /\ OperationLogs' = st.log
                   /\ pc' = IF PopRecord(MutationQueue) = <<>> THEN "sync" ELSE "rollback"
                   /\ UNCHANGED <<finalizeCalls, flushing, uncaught>>
    /\ UNCHANGED <<text, mirror, observing, timer, edits, preEdit, postEdit, mirrorPre,
                   applied, captured, lastFlush, batch, finalized, lifeVars, redundant>>
    /\ UNCHANGED editorVars
    /\ UNCHANGED apiVars

\* the loop of SyncToMirror taking its operations with shift()
SyncToMirrorShift ==
    /\ pc = "sync"
    /\ OperationLogs /= <<>>
    /\ LET entry == Head(OperationLogs)
           res == ApplyOperation(mirror, entry.op)
       IN  /\ mirror' = res.doc
           /\ applied' = [applied EXCEPT ![entry.rid] = IF res.err THEN @ ELSE @ + 1]
           /\ IF res.err
              THEN Throw
              ELSE /\ OperationLogs' = Tail(OperationLogs)
                   /\ UNCHANGED <<pc, finalizeCalls, flushing, uncaught>>
    /\ UNCHANGED <<domVars, obsVars, timer, edits, preEdit, postEdit, mirrorPre,
                   compiled, emitted, captured, lastFlush, batch, finalized, lifeVars,
                   redundant>>
    /\ UNCHANGED editorVars
    /\ UNCHANGED apiVars

\* lines 219-232: one turn of the loop of SyncToMirror
SyncToMirror ==
    /\ pc = "sync"
    /\ OperationLogs /= <<>>
    /\ LET entry == Last(OperationLogs)
           res == ApplyOperation(mirror, entry.op)
       IN  /\ mirror' = res.doc
           /\ applied' = [applied EXCEPT ![entry.rid] = IF res.err THEN @ ELSE @ + 1]
           /\ IF res.err
              THEN Throw
              ELSE /\ OperationLogs' = PopOperation(OperationLogs)
                   /\ UNCHANGED <<pc, finalizeCalls, flushing, uncaught>>
    /\ UNCHANGED <<domVars, obsVars, timer, edits, preEdit, postEdit, mirrorPre,
                   compiled, emitted, captured, lastFlush, batch, finalized, lifeVars,
                   redundant>>
    /\ UNCHANGED editorVars
    /\ UNCHANGED apiVars

\* a ReloadEditorContent that keeps the string it has
ReloadEditorContentStale(doc, str) == str

\* FinalizeChanges is the editor's ReloadEditorContent: the string handed to
\* the view layer is the innerHTML of the mirror's body
ReloadEditorContent(doc, str) ==
    IF doc = NoDocument THEN str ELSE Serialize(doc.kids)

\* line 150: FinalizeChanges(), once SyncToMirror has returned
Finalize ==
    /\ pc = "sync"
    /\ OperationLogs = <<>>
    /\ EditorHTMLString' = ReloadEditorContent(mirror, EditorHTMLString)
    /\ UNCHANGED keyVars
    /\ finalizeCalls' = finalizeCalls + 1
    /\ finalized' = finalized + 1
    /\ pc' = "restart"
    /\ UNCHANGED <<domVars, mirror, obsVars, timer, OperationLogs, edits, flushing,
                   uncaught, preEdit, postEdit, mirrorPre, compiled, emitted, applied,
                   captured, lastFlush, batch, lifeVars, redundant>>
    /\ UNCHANGED apiVars

\* line 154: return toggleObserve(true)
Restart ==
    /\ pc = "restart"
    /\ life /= "cleaned"
    /\ observing' = toggleObserve(TRUE)
    /\ redundant' = Redundant(TRUE)
    /\ pc' = "idle"
    /\ flushing' = flushing - 1
    /\ preEdit' = innerHTML(kids, text)
    /\ UNCHANGED <<domVars, mirror, MutationQueue, records, timer, OperationLogs, edits,
                   finalizeCalls, uncaught, postEdit, mirrorPre, compiled, emitted, applied,
                   captured, lastFlush, batch, finalized, lifeVars>>
    /\ UNCHANGED editorVars
    /\ UNCHANGED apiVars

(***************************************************************************)
(* What starts a flush (lines 328-341).                                    *)
(***************************************************************************)
\* flushQueueDebounced(): (re)start the 500 ms timer
flushQueueDebounced == timer' = TRUE

\* the "input" event
InputHandler ==
    /\ NoFlushRunning
    /\ bound
    /\ flushQueueDebounced
    /\ UNCHANGED <<domVars, mirror, obsVars, edits, flushVars, histVars, lifeVars, redundant>>
    /\ UNCHANGED editorVars
    /\ UNCHANGED apiVars

\* the "paste" event
PastHandler ==
    /\ NoFlushRunning
    /\ bound
    /\ flushQueueDebounced
    /\ UNCHANGED <<domVars, mirror, obsVars, edits, flushVars, histVars, lifeVars, redundant>>
    /\ UNCHANGED editorVars
    /\ UNCHANGED apiVars

\* the debounce timer expires: lodash calls FlushQueue
TimerFire ==
    /\ NoFlushRunning
    /\ timer
    /\ timer' = FALSE
    /\ FlushQueue

\* an immediate-sync request: FlushQueue is called at once
SyncNow ==
    /\ NoFlushRunning
    /\ timer' = timer
    /\ FlushQueue

\* an input event whose debounce timer expires before anything else happens
DebouncedFlush ==
    /\ NoFlushRunning
    /\ timer' = FALSE
    /\ FlushQueue

(***************************************************************************)
(* The component's life (lines 291-350).  The first layout effect has no   *)
(* dependency list: every commit runs its cleanup and then the effect.     *)
(***************************************************************************)
\* the state between two flush steps in which FinalizeChanges() has been
\* called and FlushQueue has not yet returned: a synchronous re-render
\* commits here
InFinalizeChanges == pc = "restart"

\* lines 301-303: the cleanup of a commit, toggleObserve(false).  disconnect()
\* empties the observer's record queue.
EffectCleanup ==
    /\ life = "mounted"
    /\ pc = "idle" \/ InFinalizeChanges
    /\ observing' = toggleObserve(FALSE)
    /\ redundant' = Redundant(FALSE)
    /\ records' = <<>>
    /\ life' = "cleaned"
    /\ UNCHANGED <<domVars, mirror, MutationQueue, timer, edits, flushVars, histVars, bound>>
    /\ UNCHANGED editorVars
    /\ UNCHANGED apiVars

\* lines 294-298: the effect of a commit, toggleObserve(true)
EffectSetup ==
    /\ life = "cleaned"
    /\ observing' = toggleObserve(TRUE)
    /\ redundant' = Redundant(TRUE)
    /\ life' = "mounted"
    /\ UNCHANGED <<domVars, mirror, MutationQueue, records, timer, edits, flushVars,
                   histVars, bound>>
    /\ UNCHANGED editorVars
    /\ UNCHANGED apiVars

\* a commit that attaches the watched element to the ref; its layout
\* effects run next
RefAvailable ==
    /\ life = "pending"
    /\ pc = "idle"
    /\ life' = "cleaned"
    /\ UNCHANGED <<domVars, mirror, obsVars, timer, edits, flushVars, histVars, bound,
                   redundant>>
    /\ UNCHANGED editorVars
    /\ UNCHANGED apiVars

\* lines 307-341: the second layout effect, run with both refs set
BindEvents ==
    /\ life = "mounted"
    /\ pc = "idle"
    /\ ~bound
    /\ mirror /= NoDocument
    /\ bound' = TRUE
    /\ UNCHANGED <<domVars, mirror, obsVars, timer, edits, flushVars, histVars, life,
                   redundant>>
    /\ UNCHANGED editorVars
    /\ UNCHANGED apiVars

\* the caller sets MirrorDocumentRef.current to the parsed document
MirrorLoaded ==
    /\ mirror = NoDocument
    /\ pc = "idle"
    /\ life /= "cleaned"
    /\ mirror' = BodyOf(innerHTML(InitKids, InitText))
    /\ EditorHTMLString' = Serialize(innerHTML(InitKids, InitText))
    /\ UNCHANGED keyVars
    /\ UNCHANGED <<domVars, obsVars, timer, edits, flushVars, histVars, lifeVars, redundant>>
    /\ UNCHANGED apiVars

\* unmount: both cleanups (lines 301-303, 343-347); the debounce timer is
\* not cancelled
Unmount ==
    /\ life = "mounted"
    /\ pc = "idle"
    /\ observing' = toggleObserve(FALSE)
    /\ redundant' = Redundant(FALSE)
    /\ records' = <<>>
    /\ bound' = FALSE
    /\ life' = "unmounted"
    /\ UNCHANGED <<domVars, mirror, MutationQueue, timer, edits, flushVars, histVars>>
    /\ UNCHANGED editorVars
    /\ UNCHANGED apiVars

(***************************************************************************)
(* Spec: the daemon with its scheduling (observer callback, events, timer, *)
(* immediate sync), under single-node edits at the top of the document.    *)
(***************************************************************************)
Next ==
    \/ \E n \in TextNodes, v \in TextVals : SetText(n, v)
    \/ \E n \in AllNodes : InsertNode(RootNode, n, None)
    \/ \E n \in ElementNodes : RemoveNode(n)
    \/ ObserverCallback
    \/ InputHandler
    \/ PastHandler
    \/ TimerFire
    \/ SyncNow
    \/ CompileRecord
    \/ SyncToMirror
    \/ Finalize
    \/ Restart

Spec == Init /\ [][Next]_vars

(***************************************************************************)
(* DomSpec: every kind of edit anywhere in the document, each batch        *)
(* flushed by a debounced flush.                                           *)
(***************************************************************************)
DomNext ==
    \/ \E n \in TextNodes, v \in TextVals : SetText(n, v)
    \/ \E parent \in ElementNodes, n \in AllNodes, ref \in AllNodes \cup {None} :
          InsertNode(parent, n, ref)
    \/ \E n \in AllNodes : RemoveNode(n)
    \/ \E parent \in ElementNodes : \E f \in Fragments(kids) : ReplaceChildren(parent, f)
    \/ DebouncedFlush
    \/ CompileRecord
    \/ SyncToMirror
    \/ Finalize
    \/ Restart

DomSpec == Init /\ [][DomNext]_vars

(***************************************************************************)
(* LifeSpec: the daemon through the life of its component: refs that are   *)
(* missing at first, re-renders, unmount.                                  *)
(***************************************************************************)
LifeNext ==
    \/ \E n \in TextNodes, v \in TextVals : SetText(n, v)
    \/ \E n \in AllNodes : InsertNode(RootNode, n, None)
    \/ \E n \in ElementNodes : RemoveNode(n)
    \/ ObserverCallback
    \/ InputHandler
    \/ PastHandler
    \/ TimerFire
    \/ SyncNow
    \/ CompileRecord
    \/ SyncToMirror
    \/ Finalize
    \/ Restart
    \/ EffectCleanup
    \/ EffectSetup
    \/ RefAvailable
    \/ BindEvents
    \/ MirrorLoaded
    \/ Unmount

LifeSpec == LifeInit /\ [][LifeNext]_vars

\* the scheduling the event loop guarantees: an armed timer expires, a
\* pending observer callback is delivered, a running FlushQueue goes on
FairSpec ==
    /\ Spec
    /\ WF_vars(TimerFire)
    /\ WF_vars(ObserverCallback)
    /\ WF_vars(CompileRecord)
    /\ WF_vars(SyncToMirror)
    /\ WF_vars(Finalize)
    /\ WF_vars(Restart)

(***************************************************************************)
(* The ignore registry of the daemon handle: AddToIgnore(nodes, scope,     *)
(* includeDescendants) and the compiler's check of every node before it    *)
(* rolls it back (spec 4.4).                                               *)
(***************************************************************************)
IgnoreEntry(n, scope, desc) == [node |-> n, scope |-> scope, desc |-> desc]

\* isIgnored(node): an "any" entry for the node or, with descendants, for one
\* of its ancestors; or a "once" entry for the node itself
IsIgnored(reg, k, n) ==
    \E e \in reg :
        \/ e.node = n
        \/ e.scope = "any" /\ e.desc /\ e.node \in Ancestors(k, n)

\* the nodes of record m the compiler checks
CheckedNodes(m) ==
    IF m.type = "characterData" THEN {m.target}
    ELSE Range(m.removedNodes) \cup Range(m.addedNodes)

\* the registry after the checks for record m: a "once" entry is removed by
\* the check that matches it
ConsumeAll(reg, m) ==
    {e \in reg : ~(e.scope = "once" /\ e.node \in CheckedNodes(m))}

\* an Exempt that never takes a node out of a record
ExemptNone(reg, k, m) == m

\* an Exempt that drops the whole record when one of its nodes is ignored
ExemptRecord(reg, k, m) ==
    IF \E n \in CheckedNodes(m) : IsIgnored(reg, k, n)
    THEN [m EXCEPT !.type = "ignored", !.removedNodes = <<>>, !.addedNodes = <<>>]
    ELSE m

\* record m without its ignored nodes; a text record of an ignored target
\* is dropped
Exempt(reg, k, m) ==
    [m EXCEPT !.type = IF @ = "characterData" /\ IsIgnored(reg, k, m.target)
                       THEN "ignored" ELSE @,
              !.removedNodes = SelectSeq(@, LAMBDA n : ~IsIgnored(reg, k, n)),
              !.addedNodes = SelectSeq(@, LAMBDA n : ~IsIgnored(reg, k, n))]

\* AddToIgnore(n, scope, includeDescendants): the last writer wins
AddToIgnore(n, scope, desc) ==
    /\ NoFlushRunning
    /\ life = "mounted"
    /\ Cardinality({e \in IgnoreMap : e.node /= n}) < MaxIgnore
    /\ IgnoreEntry(n, scope, desc) \notin IgnoreMap
    /\ IgnoreMap' = {e \in IgnoreMap : e.node /= n} \cup {IgnoreEntry(n, scope, desc)}
    /\ UNCHANGED <<domVars, mirror, obsVars, timer, edits, flushVars, histVars, lifeVars,
                   redundant, editorVars, handleVars>>

\* one turn of the compiler's loop, with the registry consulted first
CompileRecordExempt ==
    /\ pc = "rollback"
    /\ MutationQueue /= <<>>
    /\ LET mutation == Last(MutationQueue)
           kept == Exempt(IgnoreMap, kids, mutation)
           st == Compile(kids, text, OperationLogs, kept)
       IN  /\ MutationQueue' = PopRecord(MutationQueue)
           /\ IgnoreMap' = ConsumeAll(IgnoreMap, mutation)
           /\ kids' = st.k
           /\ records' = Capture(observing, records, st.own)
           /\ compiled' = [compiled EXCEPT ![mutation.rid] = @ + 1]
           /\ emitted' = [emitted EXCEPT ![mutation.rid] =
                             @ + CountOf(st.log, mutation.rid) - CountOf(OperationLogs, mutation.rid)]
           /\ IF st.err
              THEN Throw
              ELSE /\ OperationLogs' = st.log
                   /\ pc' = IF PopRecord(MutationQueue) = <<>> THEN "sync" ELSE "rollback"
                   /\ UNCHANGED <<finalizeCalls, flushing, uncaught>>
    /\ UNCHANGED <<text, mirror, observing, timer, edits, preEdit, postEdit, mirrorPre,
                   applied, captured, lastFlush, batch, finalized, lifeVars, redundant,
                   editorVars, handleVars>>

(***************************************************************************)
(* IgnoreSpec: DomSpec with components that register nodes in the ignore   *)
(* registry.                                                               *)
(***************************************************************************)
IgnoreNext ==
    \/ \E n \in TextNodes, v \in TextVals : SetText(n, v)
    \/ \E n \in ElementNodes : RemoveNode(n)
    \/ \E f \in Fragments(kids) : ReplaceChildren(RootNode, f)
    \/ \E n \in {"pa", "t1"}, scope \in {"once", "any"} :
          \E desc \in IF IsText(n) \/ scope = "once" THEN {FALSE} ELSE BOOLEAN :
              AddToIgnore(n, scope, desc)
    \/ DebouncedFlush
    \/ CompileRecordExempt
    \/ SyncToMirror
    \/ Finalize
    \/ Restart

IgnoreSpec == Init /\ [][IgnoreNext]_vars

(***************************************************************************)
(* The daemon handle the newer editor uses (part_000 lines 1286-1296):     *)
(* SetFutureCaret, the history buffer, and SyncNow as a promise.           *)
(***************************************************************************)
\* the directives a link's Enter hook and line breaking ask for
\* (Links.tsx line 108, part_000 line 659)
Directives == {"PrevElement", "NextLine"}

\* a handler calls DaemonHandle.SetFutureCaret(d): d is stored, whatever was
\* stored before
SetFutureCaret(d) ==
    /\ NoFlushRunning
    /\ life = "mounted"
    /\ extract.pc = "idle"
    /\ Len(caretSets) < MaxCaretSets
    /\ FutureCaret' = d
    /\ caretSets' = Append(caretSets, d)
    /\ UNCHANGED <<domVars, mirror, obsVars, timer, edits, flushVars, histVars, lifeVars,
                   redundant, editorVars, IgnoreMap, caretLog, rendered, History,
                   HistoryLength, extract>>

\* the directive left after a re-render that does not clear it
ConsumeCaretKeep(d) == d

\* the directive left after a re-render has queried it
ConsumeCaret(d) == NoCaret

\* the view has re-rendered from the canonical document of the flushes that
\* finished: the directive is queried and cleared
Rerender ==
    /\ pc = "idle"
    /\ life = "mounted"
    /\ rendered < finalizeCalls
    /\ rendered' = finalizeCalls
    /\ caretLog' = Append(caretLog, [applied |-> FutureCaret, sets |-> caretSets])
    /\ FutureCaret' = ConsumeCaret(FutureCaret)
    /\ caretSets' = <<>>
    /\ UNCHANGED <<domVars, mirror, obsVars, timer, edits, flushVars, histVars, lifeVars,
                   redundant, editorVars, IgnoreMap, History, HistoryLength, extract>>

\* a history entry
HistoryEntry(html, caret) == [html |-> html, caret |-> caret]

\* the buffer after a push that evicts nothing
PushUnbounded(h, len, e) == Append(h, e)

\* the buffer after a push: the oldest entries leave when it is over len
Push(h, len, e) ==
    LET all == Append(h, e)
    IN  IF Len(all) > len THEN SubSeq(all, Len(all) - len + 1, Len(all)) ELSE all

\* the end of a flush of the newer daemon: the finalize callback, then the
\* history entry
FinalizePush ==
    /\ pc = "sync"
    /\ OperationLogs = <<>>
    /\ EditorHTMLString' = ReloadEditorContent(mirror, EditorHTMLString)
    /\ UNCHANGED keyVars
    /\ finalizeCalls' = finalizeCalls + 1
    /\ finalized' = finalized + 1
    /\ pc' = "restart"
    /\ History' = Push(History, HistoryLength, HistoryEntry(EditorHTMLString', FutureCaret))
    /\ UNCHANGED <<domVars, mirror, obsVars, timer, OperationLogs, edits, flushing,
                   uncaught, preEdit, postEdit, mirrorPre, compiled, emitted, applied,
                   captured, lastFlush, batch, lifeVars, redundant>>
    /\ UNCHANGED <<IgnoreMap, caretVars, HistoryLength, extract>>

\* part_000 lines 329-330: ExtractMD calls DaemonHandle.SyncNow() and waits
\* for its promise; SyncNow flushes at once what is pending
ExtractMDCall ==
    LET queue == MutationQueue \o records IN
    /\ NoFlushRunning
    /\ life = "mounted"
    /\ extract.pc = "idle"
    /\ extract' = [pc |-> "awaiting",
                   rids |-> {queue[i].rid : i \in DOMAIN queue},
                   target |-> IF queue = <<>> THEN finalizeCalls ELSE finalizeCalls + 1,
                   done |-> "none",
                   html |-> <<>>]
    /\ records' = <<>>
    /\ MutationQueue' = queue
    /\ IF queue = <<>>
       THEN /\ lastFlush' = "empty"
            /\ UNCHANGED <<observing, flushVars, postEdit, mirrorPre, batch, finalized,
                           redundant>>
       ELSE /\ lastFlush' = "batch"
            /\ batch' = queue
            /\ finalized' = 0
            /\ observing' = toggleObserve(FALSE)
            /\ redundant' = Redundant(FALSE)
            /\ pc' = "rollback"
            /\ OperationLogs' = <<>>
            /\ flushing' = flushing + 1
            /\ postEdit' = innerHTML(kids, text)
            /\ mirrorPre' = mirror.kids
            /\ UNCHANGED <<finalizeCalls, uncaught>>
    /\ UNCHANGED <<preEdit, compiled, emitted, applied, captured>>
    /\ UNCHANGED <<domVars, mirror, timer, edits, lifeVars, editorVars>>
    /\ UNCHANGED <<IgnoreMap, caretVars, History, HistoryLength>>

\* the promise of SyncNow is settled once the flush has returned and the
\* view has re-rendered; it resolves when the flush went through, and
\* ExtractMD then converts SourceHTMLStringRef.current (part_000 line 331)
ExtractMDResume ==
    /\ extract.pc = "awaiting"
    /\ pc = "idle"
    /\ rendered = finalizeCalls
    /\ extract' = IF finalizeCalls >= extract.target
                  THEN [extract EXCEPT !.pc = "idle", !.done = "converted",
                                       !.html = EditorHTMLString]
                  ELSE [extract EXCEPT !.pc = "idle", !.done = "rejected"]
    /\ UNCHANGED <<domVars, mirror, obsVars, timer, edits, flushVars, histVars, lifeVars,
                   redundant, editorVars, IgnoreMap, caretVars, History, HistoryLength>>

(***************************************************************************)
(* CaretSpec: handlers that set a caret directive, flushes and the         *)
(* re-renders that follow them.                                            *)
(***************************************************************************)
CaretNext ==
    \/ \E v \in TextVals : SetText("t1", v)
    \/ \E d \in Directives : SetFutureCaret(d)
    \/ DebouncedFlush
    \/ CompileRecord
    \/ SyncToMirror
    \/ Finalize
    \/ Restart
    \/ Rerender

CaretSpec == Init /\ [][CaretNext]_vars

(***************************************************************************)
(* HistorySpec: the newer daemon under an editor configured with some      *)
(* history length; every flush ends with a history entry.                  *)
(***************************************************************************)
HistoryInit ==
    /\ InitDaemon
    /\ lineDoc = Doc1
    /\ FirstLayoutEffectDone
    /\ mirror = BodyOf(innerHTML(InitKids, InitText))
    /\ EditorHTMLString = Serialize(innerHTML(InitKids, InitText))
    /\ HistoryLength \in 1..MaxHistory
    /\ life = "mounted"
    /\ observing = TRUE
    /\ bound = TRUE

HistoryNext ==
    \/ \E n \in TextNodes, v \in TextVals : SetText(n, v)
    \/ \E n \in ElementNodes : RemoveNode(n)
    \/ DebouncedFlush
    \/ CompileRecord
    \/ SyncToMirror
    \/ FinalizePush
    \/ Restart

HistorySpec == HistoryInit /\ [][HistoryNext]_vars

(***************************************************************************)
(* ExtractSpec: ExtractMD called between edits and flushes.  While it      *)
(* waits nothing but the flush and the re-render goes on.                  *)
(***************************************************************************)
ExtractNext ==
    \/ extract.pc = "idle" /\ \E n \in TextNodes, v \in TextVals : SetText(n, v)
    \/ extract.pc = "idle" /\ \E n \in AllNodes : InsertNode(RootNode, n, None)
    \/ extract.pc = "idle" /\ \E n \in ElementNodes : RemoveNode(n)
    \/ extract.pc = "idle" /\ DebouncedFlush
    \/ ExtractMDCall
    \/ CompileRecord
    \/ SyncToMirror
    \/ Finalize
    \/ Restart
    \/ Rerender
    \/ ExtractMDResume

ExtractSpec == Init /\ [][ExtractNext]_vars

(***************************************************************************)
(* The editor's own functions (part_000, CommonFunctions.ts).  What they   *)
(* ask of the daemon handle (AddToOperations, SyncNow) is recorded in      *)
(* call; the daemon's side of it is in the specifications above.           *)
(***************************************************************************)
\* what a component's hook gives back: no hook, a value, or a promise of one
HookReturns == {"nohook", "true", "false", "undefined", "promiseTrue", "promiseFalse"}

Keys == {"Enter", "Backspace", "Delete"}

\* the value of "await x"
Awaited(x) ==
    IF x = "promiseTrue" THEN "true" ELSE IF x = "promiseFalse" THEN "false" ELSE x

\* part_000 lines 567-598: the active component's enter hook is awaited and
\* must give true (line 576); the enter hook of a parent component is called
\* without await and must return true (line 595)
EnterGate(hook, parent) ==
    /\ hook = "nohook" \/ Awaited(hook) = "true"
    /\ parent = "nohook" \/ parent = "true"

\* part_000 lines 761-765 and 957-962: backspaceOverride / delOverride is
\* called without await and must return true
OverrideGate(hook) == hook = "nohook" \/ hook = "true"

\* the selection check that lets every call through
HasAnchorAlways(sel) == TRUE

\* part_000 lines 606, 770, 968, 285, 297: there is a selection and it has
\* an anchor node
HasAnchor(sel) == sel /= NoSelection /\ sel /= None

\* an operation handed to AddToOperations
HandleOp(type, target) == [type |-> type, targetNode |-> target]

\* how a handler ends: the operations it has added, whether it called SyncNow
Exit(ops, sync) == [ops |-> ops, sync |-> sync]

NoExit == Exit(<<>>, FALSE)

\* the ends of the generic handling of a key with the caret in a text node
\* of the line: Enter returns early (lines 609-642), syncs only (lines
\* 614-615) or adds a line (lines 653-660, 745-754); Backspace and Delete
\* return early (lines 773-869, 971-1074), remove a line (lines 880-887,
\* 1082-1086) or join two lines (lines 938-950, 1158-1169)
GenericExits(key, line) ==
    IF key = "Enter"
    THEN {NoExit, Exit(<<>>, TRUE), Exit(<<HandleOp("ADD", line)>>, TRUE)}
    ELSE {NoExit, Exit(<<HandleOp("REMOVE", line)>>, TRUE),
          Exit(<<HandleOp("REMOVE", line), HandleOp("REPLACE", line)>>, TRUE)}

\* the user moves the caret, or the selection goes away
SelectionChange(sel) ==
    /\ NoFlushRunning
    /\ life = "mounted"
    /\ sel /= CurrentSelection
    /\ sel \in TextNodes => Attached(kids, sel)
    /\ CurrentSelection' = sel
    /\ UNCHANGED <<domVars, mirror, obsVars, timer, edits, flushVars, histVars, lifeVars,
                   redundant, EditorHTMLString, viewVars, call, apiVars>>

\* EnterKeyHandler (lines 550-755), BackSpaceKeyHandler (lines 757-951),
\* DelKeyHandler (lines 953-1170): the hooks of the active components, then
\* the selection check, then the generic handling
KeyHandler(key, hook, parent, exit) ==
    /\ NoFlushRunning
    /\ life = "mounted"
    /\ LET gate == IF key = "Enter" THEN EnterGate(hook, parent) ELSE OverrideGate(hook)
           acts == /\ gate
                   /\ HasAnchor(CurrentSelection)
                   /\ CurrentSelection /= RootNode
       IN  /\ exit \in IF acts THEN GenericExits(key, parentNode(kids, CurrentSelection))
                       ELSE {NoExit}
           /\ call' = [handler |-> key, sel |-> CurrentSelection, hook |-> hook,
                       parent |-> parent, args |-> <<>>, generic |-> gate,
                       ops |-> exit.ops, syncs |-> IF exit.sync THEN 1 ELSE 0,
                       ret |-> "undefined"]
    /\ UNCHANGED <<domVars, mirror, obsVars, timer, edits, flushVars, histVars, lifeVars,
                   redundant, EditorHTMLString, CurrentSelection, viewVars, apiVars>>

\* InsertText(TextContent, bSyncAfterInsert) (lines 272-326): v is the text
\* the anchor node holds afterwards
InsertText(v, bSyncAfterInsert) ==
    /\ NoFlushRunning
    /\ life = "mounted"
    /\ LET n == CurrentSelection
           inserts == HasAnchor(n) /\ n /= RootNode
           done == [handler |-> "InsertText", sel |-> n, hook |-> "nohook",
                    parent |-> "nohook",
                    args |-> <<v, IF bSyncAfterInsert THEN "true" ELSE "false">>,
                    generic |-> inserts, ops |-> <<>>,
                    syncs |-> IF inserts /\ bSyncAfterInsert THEN 1 ELSE 0,
                    ret |-> "undefined"]
       IN  /\ call' = done
           /\ IF inserts
              THEN /\ edits < MaxEdits
                   /\ Watched(n)
                   /\ v /= text[n]
                   /\ text' = [text EXCEPT ![n] = v]
                   /\ records' = Capture(observing, records,
                          <<MutationRecord(edits + 1, "user", "characterData", n, <<>>,
                                           <<>>, None, text[n])>>)
                   /\ captured' = IF observing THEN captured \cup {edits + 1} ELSE captured
                   /\ edits' = edits + 1
              ELSE UNCHANGED <<text, records, captured, edits>>
    /\ UNCHANGED <<kids, mirror, MutationQueue, observing, timer, flushVars, lifeVars,
                   redundant>>
    /\ UNCHANGED <<preEdit, postEdit, mirrorPre, compiled, emitted, applied, lastFlush,
                   batch, finalized>>
    /\ UNCHANGED <<EditorHTMLString, CurrentSelection, viewVars, apiVars>>

\* the checks of UpdateComponentAndSync without the one on the result of
\* TextNodeProcessor
ReplacesUnchecked(daemonHandle, TextNodeContent, ParentElement, textNodeResult) ==
    /\ TextNodeContent \notin {Null, ""}
    /\ ParentElement /= None
    /\ daemonHandle /= Null

\* CommonFunctions.ts lines 31 and 34: the two early returns
Replaces(daemonHandle, TextNodeContent, ParentElement, textNodeResult) ==
    /\ TextNodeContent \notin {Null, ""}
    /\ ParentElement /= None
    /\ daemonHandle /= Null
    /\ textNodeResult /= Null

\* UpdateComponentAndSync(daemonHandle, TextNodeContent, ParentElement)
\* (CommonFunctions.ts lines 30-44); textNodeResult is what TextNodeProcessor
\* gives for the text
UpdateComponentAndSync(daemonHandle, TextNodeContent, ParentElement, textNodeResult) ==
    /\ NoFlushRunning
    /\ life = "mounted"
    /\ LET replaces == Replaces(daemonHandle, TextNodeContent, ParentElement,
                                textNodeResult)
       IN  call' = [handler |-> "UpdateComponentAndSync", sel |-> CurrentSelection,
                    hook |-> "nohook", parent |-> "nohook",
                    args |-> <<daemonHandle, TextNodeContent, ParentElement, textNodeResult>>,
                    generic |-> replaces,
                    ops |-> IF replaces THEN <<HandleOp("REPLACE", ParentElement)>> ELSE <<>>,
                    syncs |-> IF replaces THEN 1 ELSE 0,
                    ret |-> IF replaces THEN "promise" ELSE "undefined"]
    /\ UNCHANGED <<domVars, mirror, obsVars, timer, edits, flushVars, histVars, lifeVars,
                   redundant, EditorHTMLString, CurrentSelection, viewVars, apiVars>>

\* EditorMaskRef.current: React sets the ref at mount and clears it at unmount
EditorMaskRef == IF life = "mounted" THEN "mask" ELSE Null

\* EditorElementRef.current, the <main> rendered next to the mask
EditorElementRef == IF life = "mounted" THEN RootNode ELSE Null

\* MaskEditingArea's class changes (part_000 lines 244, 246) with the mask
\* left hidden
ShowMaskKeepHidden(cl) == [editor |-> cl.editor \cup {"No-Vis"}, mask |-> cl.mask]

\* MaskEditingArea's class changes (part_000 lines 244, 246): the editing
\* area is hidden and the mask shown
ShowMask(cl) == [editor |-> cl.editor \cup {"No-Vis"}, mask |-> cl.mask \ {"Hide-It"}]

\* the editor's layout effect (part_000 lines 1223-1229), which has no
\* dependency list and runs after every render
LayoutEffect ==
    /\ NoFlushRunning
    /\ IF EditorElementRef = Null \/ EditorMaskRef = Null
       THEN UNCHANGED maskVars
       ELSE /\ classList' = ShowEditor(classList)
            /\ EditorMask' = " "
    /\ UNCHANGED <<domVars, mirror, obsVars, timer, edits, flushVars, histVars, lifeVars,
                   redundant, EditorHTMLString, CurrentSelection, call, compVars, apiVars>>

\* MaskEditingArea (part_000 lines 238-256), the daemon's OnRollback option:
\* called when a flush is about to roll back
MaskEditingArea ==
    /\ NoFlushRunning
    /\ IF EditorMaskRef = Null \/ EditorMask = ""
       THEN /\ call' = [NoCall EXCEPT !.handler = "MaskEditingArea"]
            /\ EditorMask' = EditorMask
            /\ classList' = classList
       ELSE /\ call' = [NoCall EXCEPT !.handler = "MaskEditingArea", !.ret = "unmask"]
            /\ EditorMask' = IF kids[RootNode] /= <<>> THEN "copy" ELSE EditorMask
            /\ classList' = IF kids[RootNode] /= <<>> THEN ShowMask(classList)
                             ELSE classList
    /\ UNCHANGED <<domVars, mirror, obsVars, timer, edits, flushVars, histVars, lifeVars,
                   redundant, EditorHTMLString, CurrentSelection, compVars, apiVars>>

\* the callback MaskEditingArea has returned (lines 250-255)
Unmask ==
    /\ call.handler = "MaskEditingArea"
    /\ call.ret = "unmask"
    /\ EditorMask' = IF EditorMaskRef = Null THEN EditorMask ELSE " "
    /\ classList' = IF EditorElementRef = Null \/ EditorMaskRef = Null THEN classList
                     ELSE ShowEditor(classList)
    /\ call' = [call EXCEPT !.handler = "Unmask", !.ret = "undefined"]
    /\ UNCHANGED <<domVars, mirror, obsVars, timer, edits, flushVars, histVars, lifeVars,
                   redundant, EditorHTMLString, CurrentSelection, compVars, apiVars>>

(***************************************************************************)
(* EditorSpec: the editor's key handlers, InsertText and                   *)
(* UpdateComponentAndSync, with the hooks of the active components, the    *)
(* selection and the arguments as inputs.                                  *)
(***************************************************************************)
EditorNext ==
    \/ \E sel \in {NoSelection, None, RootNode} \cup TextNodes : SelectionChange(sel)
    \/ \E hook \in HookReturns, parent \in {"nohook", "true", "false"} :
          \E exit \in GenericExits("Enter", "p1") \cup GenericExits("Enter", "pa") :
              KeyHandler("Enter", hook, parent, exit)
    \/ \E key \in {"Backspace", "Delete"}, hook \in HookReturns :
          \E exit \in GenericExits(key, "p1") \cup GenericExits(key, "pa") :
              KeyHandler(key, hook, "nohook", exit)
    \/ \E v \in TextVals, bSyncAfterInsert \in BOOLEAN : InsertText(v, bSyncAfterInsert)
    \/ \E daemonHandle \in {Null, "handle"}, TextNodeContent \in {Null, "", "a"} :
          \E ParentElement \in {None, "pa"}, textNodeResult \in {Null, "nodes"} :
              UpdateComponentAndSync(daemonHandle, TextNodeContent, ParentElement,
                                     textNodeResult)

EditorSpec == Init /\ [][EditorNext]_vars

(***************************************************************************)
(* MaskSpec: the daemon calling MaskEditingArea and the callback it got,   *)
(* between edits and flushes, until the component is unmounted; the        *)
(* debounce timer outlives the component.                                  *)
(***************************************************************************)
MaskNext ==
    \/ \E n \in TextNodes, v \in TextVals : SetText(n, v)
    \/ \E n \in ElementNodes : RemoveNode(n)
    \/ MaskEditingArea
    \/ Unmask
    \/ Unmount
    \/ DebouncedFlush
    \/ CompileRecord
    \/ SyncToMirror
    \/ Finalize
    \/ Restart

MaskSpec == Init /\ [][MaskNext]_vars

(***************************************************************************)
(* ClassSpec: the class lists of the editing area and of the mask, from    *)
(* the first render on: the layout effect of every render, the daemon's    *)
(* mask and unmask calls, the user's edits and the unmount.                *)
(***************************************************************************)
ClassInit ==
    /\ InitDaemon
    /\ lineDoc = Doc1
    /\ FirstRender
    /\ mirror = BodyOf(innerHTML(InitKids, InitText))
    /\ EditorHTMLString = Serialize(innerHTML(InitKids, InitText))
    /\ HistoryLength = MaxHistory
    /\ life = "mounted"
    /\ observing = TRUE
    /\ bound = TRUE

ClassNext ==
    \/ \E n \in TextNodes, v \in TextVals : SetText(n, v)
    \/ \E n \in ElementNodes : RemoveNode(n)
    \/ LayoutEffect
    \/ MaskEditingArea
    \/ Unmask
    \/ Unmount

ClassSpec == ClassInit /\ [][ClassNext]_vars

(***************************************************************************)
(* Sub-element editing (part_001): the editor keeps a queue of the         *)
(* sub-elements being edited and a flag that switches the daemon's         *)
(* observation and the editability of the main editor off.                 *)
(***************************************************************************)
\* the identifier OnFocus builds (part_001 lines 203-205)
UniqueId(n) == "_strong" \o ToString(n)

Identifiers == {UniqueId(n) : n \in 1..MaxIds}

\* !Identifier
Falsy(Identifier) == Identifier \in {"", Undefined}

\* let {[Identifier]: value, ...remaining} = EditingQueue.current
Remaining(q, Identifier) == [k \in DOMAIN q \ {Identifier} |-> q[k]]

\* EditingQueue.current[Identifier] = ElementRef
Assigned(q, Identifier, ElementRef) ==
    [k \in DOMAIN q \cup {Identifier} |-> IF k = Identifier THEN ElementRef ELSE q[k]]

\* the emptiness check of line 77 skipped
KeysEmptyAlways(q) == TRUE

\* Object.keys(EditingQueue.current).length === 0
KeysEmpty(q) == DOMAIN q = {}

\* the flag once the pending state update has been rendered
SettledFlag == IF pendingEditing = <<>> THEN isEditingSubElement ELSE pendingEditing[1]

\* the options the editor hands to the daemon (part_001 lines 35-36)
DaemonOptions == [IsEditable |-> ~isEditingSubElement, ShouldObserve |-> ~isEditingSubElement]

\* toggleEditingSubElement (part_001 lines 59-86)
toggleEditingSubElement(bSubEditing, Identifier, ElementRef) ==
    IF Falsy(Identifier)
    THEN UNCHANGED <<EditingQueue, pendingEditing>>
    ELSE IF ~bSubEditing
         THEN /\ EditingQueue' = IF Identifier \in DOMAIN EditingQueue
                                 THEN Remaining(EditingQueue, Identifier)
                                 ELSE EditingQueue
              /\ pendingEditing' = IF KeysEmpty(EditingQueue') THEN <<FALSE>>
                                   ELSE pendingEditing
         ELSE /\ EditingQueue' = Assigned(EditingQueue, Identifier, ElementRef)
              /\ pendingEditing' = <<TRUE>>

\* a call of toggleEditingSubElement through the NotifyParent prop
NotifyParent(bSubEditing, Identifier, ElementRef) ==
    /\ toggleEditingSubElement(bSubEditing, Identifier, ElementRef)
    /\ call' = [NoCall EXCEPT !.handler = "toggleEditingSubElement",
                              !.args = <<Identifier, ElementRef>>]
    /\ UNCHANGED <<isEditingSubElement, IdentifierRef, hasFocus, uniqueId>>
    /\ UNCHANGED <<domVars, mirror, obsVars, timer, edits, flushVars, histVars, lifeVars,
                   redundant, EditorHTMLString, CurrentSelection, maskVars, activeVars, lineVars,
                   apiVars>>

\* React renders the editor with the queued state update
RenderEditor ==
    /\ pendingEditing /= <<>>
    /\ isEditingSubElement' = pendingEditing[1]
    /\ pendingEditing' = <<>>
    /\ call' = [NoCall EXCEPT !.handler = "RenderEditor"]
    /\ UNCHANGED <<EditingQueue, IdentifierRef, hasFocus, uniqueId>>
    /\ UNCHANGED <<domVars, mirror, obsVars, timer, edits, flushVars, histVars, lifeVars,
                   redundant, EditorHTMLString, CurrentSelection, maskVars, activeVars, lineVars,
                   apiVars>>

\* TestCompo's focusin listener (part_001 lines 200-208)
OnFocus(e) ==
    /\ uniqueId < MaxIds
    /\ uniqueId' = uniqueId + 1
    /\ IdentifierRef' = [IdentifierRef EXCEPT ![e] = UniqueId(uniqueId')]
    /\ toggleEditingSubElement(TRUE, IdentifierRef'[e], e)
    /\ hasFocus' = hasFocus \cup {e}
    /\ call' = [NoCall EXCEPT !.handler = "OnFocus", !.args = <<IdentifierRef'[e], e>>]
    /\ UNCHANGED isEditingSubElement
    /\ UNCHANGED <<domVars, mirror, obsVars, timer, edits, flushVars, histVars, lifeVars,
                   redundant, EditorHTMLString, CurrentSelection, maskVars, activeVars, lineVars,
                   apiVars>>

\* TestCompo's focusout listener (part_001 lines 210-215)
OnFocusOut(e) ==
    /\ toggleEditingSubElement(FALSE, IdentifierRef[e], e)
    /\ hasFocus' = hasFocus \ {e}
    /\ call' = [NoCall EXCEPT !.handler = "OnFocusOut", !.args = <<IdentifierRef[e], e>>]
    /\ UNCHANGED <<isEditingSubElement, IdentifierRef, uniqueId>>
    /\ UNCHANGED <<domVars, mirror, obsVars, timer, edits, flushVars, histVars, lifeVars,
                   redundant, EditorHTMLString, CurrentSelection, maskVars, activeVars, lineVars,
                   apiVars>>

(***************************************************************************)
(* The generic key handling on the lines of the editing area (part_000     *)
(* lines 602-755, 768-950, 965-1169).  The handlers hand operations to the *)
(* daemon handle; what the operations do to the document is the daemon's   *)
(* part.                                                                   *)
(***************************************************************************)
\* childNodes.length === 1 && firstChild is a br
IsEmptyLine(ln) == Len(ln.kids) = 1 /\ ln.kids[1].type = "br"

\* the collapsed selections on the lines lns.  The anchor is the text node
\* that is a child of the line or the only child of an element child of the
\* line (node "text"), or it is the element child itself or, with child 0,
\* the paragraph of an empty line (node "tag"); the caret is at the start
\* of the anchor, inside its text or at its end
Carets(lns) ==
    {c \in [line : 1..Len(lns), child : 0..2, pos : {"start", "mid", "end"},
            node : {"text", "tag"}] :
        /\ c.child <= Len(lns[c.line].kids)
        /\ c.child = 0 => (IsEmptyLine(lns[c.line]) /\ c.pos = "start" /\ c.node = "tag")
        /\ c.child > 0 =>
               /\ lns[c.line].kids[c.child].type = "br" =>
                      (c.pos = "start" /\ c.node = "tag")
               /\ lns[c.line].kids[c.child].type = "text" => c.node = "text"
               /\ c.pos = "mid" => /\ c.node = "text"
                                   /\ Len(lns[c.line].kids[c.child].text) >= 2}

\* the text node inside the element child id
InnerText(id) == id \o ".text"

\* CurrentAnchorNode of the caret c on the child ch as a node of its own
AnchorId(ch, c) == IF ch.type = "element" /\ c.node = "text" THEN InnerText(ch.id) ELSE ch.id

\* GetCaretContext: the anchor's text before and after the caret
PrecedingText(t, pos) ==
    IF pos = "start" THEN <<>> ELSE IF pos = "mid" THEN SubSeq(t, 1, 1) ELSE t

RemainingText(t, pos) ==
    IF pos = "start" THEN t ELSE IF pos = "mid" THEN SubSeq(t, 2, Len(t)) ELSE <<>>

\* an operation handed to DaemonHandle.AddToOperations
LineOp(type, targetNode, siblingNode, newNode, nodeText) ==
    [type |-> type, targetNode |-> targetNode, siblingNode |-> siblingNode,
     newNode |-> newNode, parentXP |-> IF type = "ADD" THEN "//body" ELSE Null,
     nodeText |-> nodeText]

RemoveOp(targetNode) == LineOp("REMOVE", targetNode, Null, NoNode, <<>>)
ReplaceOp(targetNode, newNode) == LineOp("REPLACE", targetNode, Null, newNode, <<>>)
TextOp(targetNode, nodeText) == LineOp("TEXT", targetNode, Null, NoNode, nodeText)
AddOp(newNode, siblingNode) == LineOp("ADD", Null, siblingNode, newNode, <<>>)

\* what a handler asked of the daemon handle: the operations added, the
\* caret directive set, the SyncNow calls, the joining hooks it invoked
Asked(ops, directive, syncs, invoked) ==
    [ops |-> ops, directive |-> directive, syncs |-> syncs, invoked |-> invoked]

Nothing == Asked(<<>>, NoCaret, 0, <<>>)

\* NearestContainer.nextSibling
NextSibling(lns, i) == IF i < Len(lns) THEN lns[i + 1].id ELSE Null

\* a new line holding one br (lines 648-650, 671-673, 741-743)
BrLine == Line("new", FALSE, <<BrChild("new")>>)

\* the operations of "Breaking - Mid line" (lines 700-732) for the anchor
\* at child k of ln
MidLineOps(lns, c, k) ==
    LET ln == lns[c.line]
        n == Len(ln.kids)
        FollowingNodes == SubSeq(ln.kids, k + 1, n)
        anchorNodeClone == TextChild(AnchorId(ln.kids[k], c),
                                     RemainingText(ln.kids[k].text, c.pos))
        NewLine == Line("new", FALSE, <<anchorNodeClone>> \o FollowingNodes)
    IN  [j \in 1..(n - k) |-> RemoveOp(ln.kids[n + 1 - j].id)]
            \o <<TextOp(AnchorId(ln.kids[k], c), PrecedingText(ln.kids[k].text, c.pos))>>
            \o <<AddOp(NewLine, NextSibling(lns, c.line))>>

\* the exception of lines 694-698 skipped: the line is broken whatever the
\* anchor is
AnchorIsTextAlways(c) == TRUE

\* CurrentAnchorNode.nodeType === Node.TEXT_NODE (lines 694, 804, 993)
AnchorIsText(c) == c.node = "text"

\* EnterKeyHandler's generic handling (lines 602-755) with the caret c
EnterGeneric(lns, c) ==
    LET ln == lns[c.line]
        bEmptyLine == c.child = 0 \/ IsEmptyLine(ln)
        k == IF bEmptyLine THEN 1 ELSE c.child
        anchor == ln.kids[k]
        RemainingTxt == IF bEmptyLine THEN <<>> ELSE RemainingText(anchor.text, c.pos)
        FollowingNodes == SubSeq(ln.kids, k + 1, Len(ln.kids))
    IN  IF bEmptyLine /\ anchor.type = "br"
        THEN Asked(<<AddOp(BrLine, ln.id)>>, "NextLine", 1, <<>>)
        ELSE IF k = 1 /\ c.pos = "start"
        THEN Asked(<<AddOp(BrLine, ln.id)>>, "NextLine", 1, <<>>)
        ELSE IF RemainingTxt /= <<>> \/ FollowingNodes /= <<>>
        THEN IF ~AnchorIsText(c) THEN Nothing
             ELSE Asked(MidLineOps(lns, c, k), "NextLine", 1, <<>>)
        ELSE Asked(<<AddOp(BrLine, NextSibling(lns, c.line))>>, "NextLine", 1, <<>>)

\* the "Container Item" branches (lines 905-923, 1128-1145): one item of
\* the container line is removed, or the container with its only item
ContainerItemOp(ln, item) ==
    IF Len(ln.kids) > 1 THEN RemoveOp(ln.kids[item].id) ELSE RemoveOp(ln.id)

\* the joined line with the second line's children put first
JoinedLineSwapped(first, second) == [first EXCEPT !.kids = second.kids \o first.kids]

\* NewLine of the two "Line join" branches (lines 932-936, 1151-1155): a
\* clone of the first line with clones of the second line's children
\* appended
JoinedLine(first, second) == [first EXCEPT !.kids = first.kids \o second.kids]

\* BackSpaceKeyHandler after its override hook (lines 768-950) with the caret
\* c; joining is what the active component's backspaceJoining returns
BackspaceGeneric(lns, c, joining) ==
    LET ln == lns[c.line]
        k == IF c.child = 0 THEN 1 ELSE c.child
        anchor == ln.kids[k]
        PrecedingTxt == IF c.child = 0 THEN <<>> ELSE PrecedingText(anchor.text, c.pos)
        bPrecedingValid == PrecedingTxt /= <<>> \/ (AnchorId(anchor, c) = anchor.id /\ k > 1)
        previousElementSibling == lns[c.line - 1]
        invoked == IF joining = "nohook" THEN <<>> ELSE <<joining>>
    IN  IF AnchorIsText(c) /\ bPrecedingValid THEN Nothing
        ELSE IF c.line = 1 THEN Nothing
        ELSE IF k > 1 THEN Nothing
        ELSE IF IsEmptyLine(previousElementSibling)
        THEN Asked(<<RemoveOp(previousElementSibling.id)>>, NoCaret, 1, <<>>)
        ELSE IF IsEmptyLine(ln) THEN Asked(<<RemoveOp(ln.id)>>, NoCaret, 1, <<>>)
        ELSE IF joining \notin {"nohook", "true"} THEN Asked(<<>>, NoCaret, 0, invoked)
        ELSE IF previousElementSibling.container
        THEN Asked(<<ContainerItemOp(previousElementSibling,
                                     Len(previousElementSibling.kids))>>,
                   "PrevLine", 1, invoked)
        ELSE Asked(<<RemoveOp(ln.id),
                     ReplaceOp(previousElementSibling.id,
                               JoinedLine(previousElementSibling, ln))>>,
                   NoCaret, 1, invoked)

\* the delJoining loop of lines 1101-1115 over the stack, top first: the
\* hooks it calls
DelJoiningInvoked(returns) ==
    LET Exposed(r) == r /= "nohook"
        hooks == SelectSeq(returns, Exposed)
    IN  [i \in 1..Len(hooks) |-> Awaited(hooks[i])]

\* line 1117: bComponentDeJoiningUsed && LatestCallbackReturn !== true is
\* false
DelJoiningPasses(returns) ==
    \/ DelJoiningInvoked(returns) = <<>>
    \/ DelJoiningInvoked(returns)[Len(DelJoiningInvoked(returns))] = "true"

\* DelKeyHandler after its override hook (lines 965-1169) with the caret c;
\* returns are the awaited results of the delJoining hooks of the stack,
\* top first
DelGeneric(lns, c, returns) ==
    LET ln == lns[c.line]
        k == IF c.child = 0 THEN Len(ln.kids) ELSE c.child
        anchor == ln.kids[k]
        RemainingTxt == IF c.child = 0 THEN <<>> ELSE RemainingText(anchor.text, c.pos)
        bHasContentToDelete ==
            RemainingTxt /= <<>> \/ (AnchorId(anchor, c) = anchor.id /\ k < Len(ln.kids))
        nextElementSibling == lns[c.line + 1]
        invoked == DelJoiningInvoked(returns)
    IN  IF AnchorIsText(c) /\ bHasContentToDelete THEN Nothing
        ELSE IF c.line = Len(lns) THEN Nothing
        ELSE IF k < Len(ln.kids) THEN Nothing
        ELSE IF IsEmptyLine(nextElementSibling)
        THEN Asked(<<RemoveOp(nextElementSibling.id)>>, NoCaret, 1, <<>>)
        ELSE IF IsEmptyLine(ln) THEN Asked(<<RemoveOp(ln.id)>>, NoCaret, 1, <<>>)
        ELSE IF ~DelJoiningPasses(returns) THEN Asked(<<>>, NoCaret, 0, invoked)
        ELSE IF nextElementSibling.container
        THEN Asked(<<ContainerItemOp(nextElementSibling, 1)>>, NoCaret, 1, invoked)
        ELSE Asked(<<RemoveOp(nextElementSibling.id),
                     ReplaceOp(ln.id, JoinedLine(ln, nextElementSibling))>>,
                   NoCaret, 1, invoked)

(***************************************************************************)
(* Component activation (part_000 lines 355-458).  The rendered document   *)
(* of the model: a list component L holding a blockquote component Q,      *)
(* which holds a component A, and two components B and C next to L; every  *)
(* mapped component is rendered through an anonymous wrapper, which        *)
(* carries the React key.  L, Q, A and B keep an activation function as    *)
(* their first state, C does not.                                          *)
(***************************************************************************)
Fibers == {"App", "EditorActual", "wL", "L", "wQ", "Q", "wA", "A", "wB", "B", "wC", "C"}

\* fiber.return, skipping host fibers: the component that rendered f
Return(f) ==
    CASE f = "App" -> Null
      [] f = "EditorActual" -> "App"
      [] f \in {"wL", "wB", "wC"} -> "EditorActual"
      [] f = "L" -> "wL"
      [] f = "wQ" -> "L"
      [] f = "Q" -> "wQ"
      [] f = "wA" -> "Q"
      [] f = "A" -> "wA"
      [] f = "B" -> "wB"
      [] f = "C" -> "wC"

\* fiber.id || fiber.key
Key(f) ==
    CASE f = "wL" -> "kl"
      [] f = "wQ" -> "kq"
      [] f = "wA" -> "ka"
      [] f = "wB" -> "kb"
      [] f = "wC" -> "kc"
      [] OTHER -> Null

\* typeof fiber.memoizedState.memoizedState === "function"
HasFunc(f) == f \in {"L", "Q", "A", "B"}

\* the text nodes the selection can be on: two in A, one directly in Q, one
\* in B, one in C, and one outside the editor
EditorNodes == {"a1", "a2", "q1", "b1", "c1"}
OutsideNode == "out"

\* getCompFiber of the node's DOM fiber (part_000 lines 1361-1370)
CompFiberOf(node) ==
    CASE node \in {"a1", "a2"} -> "A"
      [] node = "q1" -> "Q"
      [] node = "b1" -> "B"
      [] node = "c1" -> "C"
      [] OTHER -> Null

\* the default of FindActiveEditorComponentFiber's parameter TraverseUp
TraverseUp == 6

\* the loop of part_000 lines 1374-1381: the component fibers above f,
\* nearest first
RECURSIVE AllParentFibers(_, _)
AllParentFibers(f, n) ==
    IF n = 0 \/ Return(f) = Null THEN <<>>
    ELSE <<Return(f)>> \o AllParentFibers(Return(f), n - 1)

\* parentFibers as found, nearest first: without the reverse of line 1383
FindActiveNearestFirst(DomNode) ==
    IF CompFiberOf(DomNode) = Null THEN [compFiber |-> Null, parentFibers |-> <<>>]
    ELSE [compFiber |-> CompFiberOf(DomNode),
          parentFibers |-> AllParentFibers(CompFiberOf(DomNode), TraverseUp)]

\* FindActiveEditorComponentFiber (part_000 lines 1338-1384)
FindActiveEditorComponentFiber(DomNode) ==
    IF CompFiberOf(DomNode) = Null THEN [compFiber |-> Null, parentFibers |-> <<>>]
    ELSE [compFiber |-> CompFiberOf(DomNode),
          parentFibers |-> Reverse(AllParentFibers(CompFiberOf(DomNode), TraverseUp))]

\* an entry of the active-component stack (TActivationCache, lines 73-79)
CachedItem(fiber, id) == [fiber |-> fiber, id |-> id]

ActivationCall(fiber, arg) == [fiber |-> fiber, arg |-> arg]

\* the pop loops of lines 383-386 and 409-412: every entry, top first, is
\* popped and its activation function called with false
SwitchOff(stack) == [i \in 1..Len(stack) |->
                        ActivationCall(stack[Len(stack) + 1 - i].fiber, FALSE)]

\* parentFibers.forEach of lines 418-439, from the i-th parent on; acc holds
\* the stack, keyLast and the activation calls made so far
RECURSIVE SwitchOn(_, _, _)
SwitchOn(parentFibers, i, acc) ==
    IF i > Len(parentFibers) THEN acc
    ELSE LET fiber == parentFibers[i]
             stored == IF Key(fiber) /= Null /\ acc.keyLast = Null THEN Key(fiber)
                       ELSE acc.keyLast
             ID == IF Key(fiber) /= Null THEN Key(fiber) ELSE stored
             keyLast == IF Key(fiber) = Null THEN Null ELSE stored
         IN  SwitchOn(parentFibers, i + 1,
                 IF ~HasFunc(fiber) THEN [acc EXCEPT !.keyLast = keyLast]
                 ELSE [stack |-> Append(acc.stack, CachedItem(fiber, ID)),
                       keyLast |-> keyLast,
                       calls |-> Append(acc.calls, ActivationCall(fiber, TRUE))])

\* the push of the caret's own component (lines 441-452)
SwitchOnTop(fiber, acc) ==
    IF ~HasFunc(fiber) THEN acc
    ELSE [stack |-> Append(acc.stack,
                           CachedItem(fiber, IF Key(fiber) /= Null THEN Key(fiber)
                                             ELSE acc.keyLast)),
          keyLast |-> acc.keyLast,
          calls |-> Append(acc.calls, ActivationCall(fiber, TRUE))]

\* LastActiveAnchor.current === selection.anchorNode (line 396)
SameAnchor(cached, sel) == cached = sel.anchorNode

\* what one run of ComponentActivationSwitch (lines 357-455) leaves of the
\* stack and the cached anchor it finds: the stack, the cached anchor and
\* the activation calls, in the order made
SwitchResult(sel, stack, cached) ==
    LET top == IF stack = <<>> THEN Null ELSE stack[Len(stack)].fiber
        same == [stack |-> stack, anchor |-> cached, calls |-> <<>>]
    IN  IF sel.anchorNode \notin EditorNodes THEN same
        ELSE IF ~sel.isCollapsed
        THEN IF sel.anchorNode = sel.focusNode \/ stack = <<>> THEN same
             ELSE LET endPointFiber == FindActiveEditorComponentFiber(sel.focusNode).compFiber
                  IN  IF endPointFiber /= Null /\ endPointFiber /= top
                      THEN [stack |-> <<>>, anchor |-> cached, calls |-> SwitchOff(stack)]
                      ELSE same
        ELSE IF SameAnchor(cached, sel) THEN same
        ELSE LET found == FindActiveEditorComponentFiber(sel.anchorNode)
                 on == SwitchOnTop(found.compFiber,
                           SwitchOn(found.parentFibers, 1,
                                    [stack |-> <<>>, keyLast |-> Null,
                                     calls |-> SwitchOff(stack)]))
             IN  IF found.compFiber = Null \/ top = found.compFiber
                 THEN [same EXCEPT !.anchor = sel.anchorNode]
                 ELSE [stack |-> on.stack, anchor |-> sel.anchorNode, calls |-> on.calls]

Switched(sel) == SwitchResult(sel, LastActivationCache, LastActiveAnchor)

\* the switch that follows the cleanup of lines 1301-1304
RefreshSwitched(sel) == SwitchResult(sel, <<>>, Null)

\* the activated components after the calls: each call sets the
\* component's own state
RECURSIVE AfterCalls(_, _)
AfterCalls(act, calls) ==
    IF calls = <<>> THEN act
    ELSE AfterCalls(IF Head(calls).arg THEN act \cup {Head(calls).fiber}
                    ELSE act \ {Head(calls).fiber}, Tail(calls))

\* ComponentActivationSwitch (lines 357-455) run on the selection sel
ComponentActivationSwitch(sel) ==
    /\ LastActivationCache' = Switched(sel).stack
    /\ LastActiveAnchor' = Switched(sel).anchor
    /\ activated' = AfterCalls(activated, Switched(sel).calls)
    /\ switchLog' = [before |-> LastActivationCache, anchor |-> LastActiveAnchor,
                     calls |-> Switched(sel).calls]

\* the selections the browser can report
Selections ==
    {[anchorNode |-> a, focusNode |-> f, isCollapsed |-> c] :
        a \in EditorNodes \cup {OutsideNode}, f \in EditorNodes \cup {OutsideNode},
        c \in BOOLEAN}

\* a selectionchange or selectstart event (lines 1232-1249): the selection
\* has changed and the listener runs ComponentActivationSwitch
OnSelectionChange(sel) ==
    /\ sel.isCollapsed => sel.anchorNode = sel.focusNode
    /\ sel /= selection
    /\ selection' = sel
    /\ ComponentActivationSwitch(sel)
    /\ call' = [NoCall EXCEPT !.handler = "OnSelectionChange"]
    /\ UNCHANGED enter
    /\ UNCHANGED <<domVars, mirror, obsVars, timer, edits, flushVars, histVars, lifeVars,
                   redundant, EditorHTMLString, CurrentSelection, maskVars, subVars, lineVars,
                   apiVars>>

\* the layout effect of lines 1298-1305, after every render: the cleanup of
\* the previous run empties the stack and the cached anchor, then
\* ComponentActivationSwitch runs on the selection as it is
ActivationRefresh ==
    /\ LastActivationCache' = RefreshSwitched(selection).stack
    /\ LastActiveAnchor' = RefreshSwitched(selection).anchor
    /\ activated' = AfterCalls(activated, RefreshSwitched(selection).calls)
    /\ switchLog' = [before |-> <<>>, anchor |-> Null,
                     calls |-> RefreshSwitched(selection).calls]
    /\ call' = [NoCall EXCEPT !.handler = "ActivationRefresh"]
    /\ UNCHANGED <<selection, enter>>
    /\ UNCHANGED <<domVars, mirror, obsVars, timer, edits, flushVars, histVars, lifeVars,
                   redundant, EditorHTMLString, CurrentSelection, maskVars, subVars, lineVars,
                   apiVars>>

\* typeof component.return?.enter === 'function'
HasEnter(f) == f \in {"Q", "A", "B"}

\* the condition of the while loop of EnterKeyHandler (lines 564-566) on the
\* stack as it is
EnterLoopRuns(LastComponentKey) ==
    /\ LastActivationCache /= <<>>
    /\ HasEnter(LastActivationCache[Len(LastActivationCache)].fiber)
    /\ LastActivationCache[Len(LastActivationCache)].id /= Null
    /\ LastActivationCache[Len(LastActivationCache)].id /= LastComponentKey

\* the entries below the i-th that expose an enter handler, the i-th first
RECURSIVE ParentsWithEnter(_, _)
ParentsWithEnter(stack, i) ==
    IF i < 1 THEN <<>>
    ELSE (IF HasEnter(stack[i].fiber) THEN <<stack[i].fiber>> ELSE <<>>)
             \o ParentsWithEnter(stack, i - 1)

\* the parent loop of lines 590-597 when the first ok handlers return true:
\* the handlers it calls
ParentEnters(ok) ==
    LET parents == ParentsWithEnter(LastActivationCache, Len(LastActivationCache) - 1)
    IN  SubSeq(parents, 1, IF ok + 1 < Len(parents) THEN ok + 1 ELSE Len(parents))

\* EnterKeyHandler after its while loop (lines 577-600): it returns if the
\* last awaited handler did not return true, calls the parents' handlers
\* while they return true and then goes on to the generic handling
AfterEnterLoop(e, LatestCallbackReturn, ok) ==
    IF e.bComponentEnterUsed /\ LatestCallbackReturn /= "true"
    THEN [e EXCEPT !.pc = "idle"]
    ELSE [e EXCEPT !.pc = "idle",
                   !.invoked = e.invoked \o ParentEnters(ok),
                   !.generic = ok >= Len(ParentsWithEnter(LastActivationCache,
                                                          Len(LastActivationCache) - 1))]

\* one pass of the while loop of lines 564-575: the top component's enter
\* handler is called and awaited
InvokeTop(e) ==
    [e EXCEPT !.pc = "awaiting",
              !.bComponentEnterUsed = TRUE,
              !.LastComponentKey = LastActivationCache[Len(LastActivationCache)].id,
              !.invoked = Append(e.invoked,
                                 LastActivationCache[Len(LastActivationCache)].fiber)]

\* EnterKeyHandler (lines 550-600) from the key press to its first await or,
\* when no handler is awaited, to its end
EnterKeyDown(ok) ==
    /\ enter.pc = "idle"
    /\ enter' = IF EnterLoopRuns(Null) THEN InvokeTop(NoEnter)
                ELSE AfterEnterLoop(NoEnter, "undefined", ok)
    /\ call' = [NoCall EXCEPT !.handler = "EnterKeyHandler"]
    /\ UNCHANGED <<selection, LastActivationCache, LastActiveAnchor, activated, switchLog>>
    /\ UNCHANGED <<domVars, mirror, obsVars, timer, edits, flushVars, histVars, lifeVars,
                   redundant, EditorHTMLString, CurrentSelection, maskVars, subVars, lineVars,
                   apiVars>>

\* the awaited enter handler has returned (lines 571-575): the top of the
\* stack is read again and the loop goes on or ends
EnterResume(LatestCallbackReturn, ok) ==
    /\ enter.pc = "awaiting"
    /\ EnterLoopRuns(enter.LastComponentKey) => Len(enter.invoked) < MaxEnterCalls
    /\ enter' = IF EnterLoopRuns(enter.LastComponentKey) THEN InvokeTop(enter)
                ELSE AfterEnterLoop(enter, LatestCallbackReturn, ok)
    /\ call' = [NoCall EXCEPT !.handler = "EnterKeyHandler"]
    /\ UNCHANGED <<selection, LastActivationCache, LastActiveAnchor, activated, switchLog>>
    /\ UNCHANGED <<domVars, mirror, obsVars, timer, edits, flushVars, histVars, lifeVars,
                   redundant, EditorHTMLString, CurrentSelection, maskVars, subVars, lineVars,
                   apiVars>>

(***************************************************************************)
(* EnterSpec: Enter key presses with the active-component stack; while an  *)
(* enter handler is awaited the selection can change.                      *)
(***************************************************************************)
EnterNext ==
    \/ \E sel \in Selections : OnSelectionChange(sel)
    \/ \E ok \in 0..2 : EnterKeyDown(ok)
    \/ \E ret \in {"true", "false", "undefined"}, ok \in 0..2 : EnterResume(ret, ok)

EnterSpec == Init /\ [][EnterNext]_vars

(***************************************************************************)
(* ActivationSpec: the selection changes and the editor re-renders.        *)
(***************************************************************************)
ActivationNext ==
    \/ \E sel \in Selections : OnSelectionChange(sel)
    \/ ActivationRefresh

ActivationSpec == Init /\ [][ActivationNext]_vars

(***************************************************************************)
(* LineSpec: the caret moves over the lines of a document and Enter,       *)
(* Backspace and Delete are pressed.  Each key press is logged with what   *)
(* the handler asked of the daemon handle and with the document that the   *)
(* operations give.                                                        *)
(***************************************************************************)
\* the document without the node id: a line, or a child of a line
WithoutNode(lns, id) ==
    LET KeepLine(ln) == ln.id /= id
        KeepChild(ch) == ch.id /= id
        kept == SelectSeq(lns, KeepLine)
    IN  [i \in 1..Len(kept) |-> [kept[i] EXCEPT !.kids = SelectSeq(@, KeepChild)]]

\* the document with newNode put before the line siblingNode, or at the end
\* of the root without a sibling
WithNodeBefore(lns, newNode, siblingNode) ==
    IF \E i \in 1..Len(lns) : lns[i].id = siblingNode
    THEN LET at == CHOOSE i \in 1..Len(lns) : lns[i].id = siblingNode
         IN  SubSeq(lns, 1, at - 1) \o <<newNode>> \o SubSeq(lns, at, Len(lns))
    ELSE Append(lns, newNode)

\* one operation applied to the document
ApplyLineOp(lns, op) ==
    IF op.type = "REMOVE" THEN WithoutNode(lns, op.targetNode)
    ELSE IF op.type = "REPLACE"
    THEN [i \in 1..Len(lns) |-> IF lns[i].id = op.targetNode THEN op.newNode ELSE lns[i]]
    ELSE IF op.type = "TEXT"
    THEN [i \in 1..Len(lns) |->
            [lns[i] EXCEPT !.kids =
                [j \in 1..Len(@) |-> IF op.targetNode \in {@[j].id, InnerText(@[j].id)}
                                     THEN [@[j] EXCEPT !.text = op.nodeText]
                                     ELSE @[j]]]]
    ELSE WithNodeBefore(lns, op.newNode, op.siblingNode)

RECURSIVE ApplyLineOps(_, _)
\* the operations applied in the order they were added
ApplyLineOps(lns, ops) ==
    IF ops = <<>> THEN lns ELSE ApplyLineOps(ApplyLineOp(lns, Head(ops)), Tail(ops))

\* the log of a key press
KeyLog(handler, hooks, generic, asked) ==
    [handler |-> handler, caret |-> lineCaret, hooks |-> hooks, generic |-> generic,
     invoked |-> asked.invoked, ops |-> asked.ops, directive |-> asked.directive,
     syncs |-> asked.syncs, after |-> ApplyLineOps(lineDoc, asked.ops)]

\* the delJoining results of the components on the stack, top first: up to
\* two components, each without the hook, giving true or a promise of it,
\* or giving nothing
StackReturns ==
    UNION {[1..n -> {"nohook", "true", "promiseTrue", "undefined"}] : n \in 0..2}

\* the selection collapses somewhere on the lines; no key is being handled
MoveCaret(c) ==
    /\ c /= lineCaret
    /\ lineCaret' = c
    /\ keyLog' = NoKey
    /\ call' = [NoCall EXCEPT !.handler = "MoveCaret"]
    /\ UNCHANGED lineDoc
    /\ UNCHANGED <<domVars, mirror, obsVars, timer, edits, flushVars, histVars, lifeVars,
                   redundant, EditorHTMLString, CurrentSelection, maskVars, subVars,
                   activeVars, apiVars>>

\* a key press handled: the caret stays where the log says until the
\* daemon has synced
KeyPressed(lg) ==
    /\ keyLog' = lg
    /\ call' = [NoCall EXCEPT !.handler = lg.handler]
    /\ UNCHANGED <<lineDoc, lineCaret>>
    /\ UNCHANGED <<domVars, mirror, obsVars, timer, edits, flushVars, histVars, lifeVars,
                   redundant, EditorHTMLString, CurrentSelection, maskVars, subVars,
                   activeVars, apiVars>>

\* EnterKeyHandler (lines 550-755) with the results of the enter hooks
EnterKeyHandler(hook, parent) ==
    KeyPressed(KeyLog("EnterKeyHandler", <<hook, parent>>, EnterGate(hook, parent),
                      IF EnterGate(hook, parent) THEN EnterGeneric(lineDoc, lineCaret)
                      ELSE Nothing))

\* BackSpaceKeyHandler (lines 757-950) with the results of the active
\* component's backspaceOverride and backspaceJoining
BackSpaceKeyHandler(override, joining) ==
    KeyPressed(KeyLog("BackSpaceKeyHandler", <<override, joining>>, OverrideGate(override),
                      IF OverrideGate(override)
                      THEN BackspaceGeneric(lineDoc, lineCaret, joining)
                      ELSE Nothing))

\* DelKeyHandler (lines 953-1169) with the results of the active
\* component's delOverride and of the delJoining hooks of the stack
DelKeyHandler(override, returns) ==
    KeyPressed(KeyLog("DelKeyHandler", <<override>> \o returns, OverrideGate(override),
                      IF OverrideGate(override)
                      THEN DelGeneric(lineDoc, lineCaret, returns)
                      ELSE Nothing))

LineInit ==
    /\ InitDaemon
    /\ lineDoc \in Docs
    /\ FirstLayoutEffectDone
    /\ mirror = BodyOf(innerHTML(InitKids, InitText))
    /\ EditorHTMLString = Serialize(innerHTML(InitKids, InitText))
    /\ HistoryLength = MaxHistory
    /\ life = "mounted"
    /\ observing = TRUE
    /\ bound = TRUE

LineNext ==
    \/ \E c \in Carets(lineDoc) : MoveCaret(c)
    \/ \E hook \in HookReturns, parent \in HookReturns : EnterKeyHandler(hook, parent)
    \/ \E override \in HookReturns, joining \in HookReturns :
           BackSpaceKeyHandler(override, joining)
    \/ \E override \in HookReturns, returns \in StackReturns :
           DelKeyHandler(override, returns)

LineSpec == LineInit /\ [][LineNext]_vars

(***************************************************************************)
(* ToggleSpec: toggleEditingSubElement called with any arguments, between  *)
(* renders of the editor.                                                  *)
(***************************************************************************)
ToggleNext ==
    \/ \E bSubEditing \in BOOLEAN, Identifier \in Identifiers \cup {"", Undefined} :
          \E ElementRef \in SubElements \cup {Null} :
              NotifyParent(bSubEditing, Identifier, ElementRef)
    \/ RenderEditor

ToggleSpec == Init /\ [][ToggleNext]_vars

(***************************************************************************)
(* FocusSpec: the focus events of the sub-elements.  A sub-element gets a  *)
(* focusin when it or a descendant takes the focus and a focusout when the *)
(* focus leaves; the browser sends no focusout when the focused node is    *)
(* removed from the document, so a second focusin can follow the first.    *)
(***************************************************************************)
FocusNext ==
    \/ \E e \in SubElements : OnFocus(e)
    \/ \E e \in SubElements : OnFocusOut(e)
    \/ RenderEditor

FocusSpec == Init /\ [][FocusNext]_vars

(***************************************************************************)
(* Properties.                                                             *)
(***************************************************************************)
\* the child structure of the watched element (tags, ids, classes, nesting)
ShapeOf(content) == [i \in 1..Len(content) |-> Shape(content[i])]

\* FlushQueue has left its rollback loop without throwing
QueueCompiled == pc = "sync"

\* FlushQueue is about to call FinalizeChanges (line 150)
LogApplied == pc = "sync" /\ OperationLogs = <<>>

\* record r is queued, delivered or not
Queued(r) == \E i \in 1..Len(MutationQueue \o records) : (MutationQueue \o records)[i].rid = r

\* record r has been compiled and each of its operations carried out
Replayed(r) ==
    /\ ~Queued(r)
    /\ compiled[r] >= 1
    /\ CountOf(OperationLogs, r) = 0
    /\ applied[r] = emitted[r]

\* C1: once FlushQueue has compiled the queue, the child structure of the
\* watched element is what it was before the first of the queued mutations
\* (the content the previous flush left, or the initial content).
RollbackInvariant == QueueCompiled => ShapeOf(innerHTML(kids, text)) = ShapeOf(preEdit)

\* C2: when the mirror held the pre-edit content at the start of a flush,
\* it holds the post-edit content of the watched element once the whole
\* operation log has been applied.
ReplayEquivalence == (LogApplied /\ mirrorPre = preEdit) => mirror.kids = postEdit

\* the address computed for n in the watched element, resolved in a mirror
\* of the same structure, is the position of n
RoundTripOf(n) ==
    getNodeFromXPath(BodyOf(innerHTML(kids, text)), getXPathFromNode(kids, n)) = LocOf(kids, n)

\* C3: for every node inside the watched element, elements of the root's
\* tag and class included, resolving its computed address in a mirror of
\* identical structure gives the node at the same position.
AddressRoundTrip == \A n \in AllNodes : Attached(kids, n) => RoundTripOf(n)

\* C4: at most one flush is in progress at any time: a flush only starts
\* when none is running.
OneFlushAtATime == flushing <= 1 /\ (flushing = 1 <=> pc /= "idle")

\* a debounce timer is pending while FlushQueue is in its rollback loop
OneFlushAtATimeCase == pc = "rollback" /\ timer /\ flushing = 1

\* C5: a flush request pending while a flush is active is not lost: every
\* edit queued at that moment is eventually replayed on the mirror.
FlushRequestNeverLost ==
    \A r \in 1..MaxEdits : [](((pc /= "idle" /\ timer /\ Queued(r)) => <>Replayed(r)))

\* the records of the running flush's batch
BatchRids == {batch[i].rid : i \in 1..Len(batch)}

\* C6: every record a flush takes is compiled exactly once, by one flush,
\* and no operation derived from it is applied to the mirror twice: a queued
\* record is not compiled yet, the rollback loop leaves no record of its
\* batch uncompiled, and FinalizeChanges is reached with each operation applied
\* once.
CompiledExactlyOnce ==
    \A r \in 1..MaxEdits :
        /\ compiled[r] <= 1
        /\ applied[r] <= emitted[r]
        /\ Queued(r) => compiled[r] = 0 /\ r \in captured
        /\ compiled[r] = 1 => r \in captured
        /\ (QueueCompiled /\ r \in BatchRids) => compiled[r] = 1
        /\ (LogApplied /\ r \in BatchRids) => applied[r] = emitted[r]

\* two flushes have run to their end, each over one of two edits
CompiledExactlyOnceCase ==
    /\ finalizeCalls = 2
    /\ pc = "idle"
    /\ \A r \in 1..2 : compiled[r] = 1 /\ emitted[r] = 1 /\ applied[r] = 1

\* C7: a FlushQueue call with nothing queued changes neither the watched
\* element nor the mirror, leaves observation as it is and does not call
\* FinalizeChanges.
EmptyFlushIsNoOp ==
    [][(MutationQueue \o records = <<>> /\ (TimerFire \/ SyncNow))
          => UNCHANGED <<kids, text, mirror, observing, MutationQueue, records, pc,
                         OperationLogs, finalizeCalls, flushing>>]_vars

\* FlushQueue has returned at its empty-queue check after a full flush
EmptyFlushIsNoOpCase == lastFlush = "empty" /\ finalizeCalls = 1 /\ observing

\* C8: whenever a batch of records reaches the observer callback while no
\* flush is running, the debounce timer is (re)started.
CallbackStartsTimer == [][ObserverCallback => timer']_vars

\* C9: observation is stopped while FlushQueue runs, so no DOM change the
\* daemon makes itself is ever captured as a record.
NoSelfCapture ==
    /\ pc \in {"rollback", "sync"} => ~observing /\ records = <<>>
    /\ \A i \in 1..Len(MutationQueue \o records) : (MutationQueue \o records)[i].by = "user"

\* the rollback has changed the watched element and nothing was captured
NoSelfCaptureCase ==
    /\ pc = "sync"
    /\ ShapeOf(innerHTML(kids, text)) /= ShapeOf(postEdit)
    /\ MutationQueue \o records = <<>>

\* C10: every flush of a non-empty queue runs to its end: whenever no
\* flush is running, observation is on and no exception has left
\* FlushQueue.
FlushRunsToCompletion == pc = "idle" => observing /\ ~uncaught

\* the record of the batch with id r
BatchRecord(r) == batch[CHOOSE i \in 1..Len(batch) : batch[i].rid = r]

RECURSIVE EmittedFor(_)
\* the number of operations compiled from the records of b
EmittedFor(b) == IF b = <<>> THEN 0 ELSE emitted[Head(b).rid] + EmittedFor(Tail(b))

\* C11: an operation the replicator cannot apply is skipped on its own:
\* every turn of the replicator loop takes its operation off the log and
\* leaves the flush running with the remaining operations.
ReplicatorIsolatesFailures ==
    [][SyncToMirror => (pc' = "sync" /\ OperationLogs' = PopOperation(OperationLogs))]_vars

\* the batch is two or more text edits, all of the same text node
SameTextNode(b) ==
    /\ Len(b) >= 2
    /\ \A i \in 1..Len(b) : b[i].type = "characterData" /\ b[i].target = b[1].target

\* C13: sequential text edits of one text node before a flush compile to a
\* single TEXT operation for the node's address, with the node's final text.
TextEditsCollapse ==
    (QueueCompiled /\ SameTextNode(batch)) =>
        /\ EmittedFor(batch) = 1
        /\ \A i \in 1..Len(OperationLogs) :
              OperationLogs[i].op =
                  Operation("TEXT", getXPathFromNode(kids, batch[1].target), NoTree,
                            text[batch[1].target], <<>>, <<>>)

\* two text edits of one node are compiled and their operation is not yet applied
TextEditsCollapseCase == QueueCompiled /\ SameTextNode(batch) /\ Len(OperationLogs) = 1

\* C15: the operations of a flush are applied in the order of the edits:
\* the operation the replicator applies stems from a record no later than
\* the record of any operation still in the log.
CausalOrder ==
    [][SyncToMirror =>
          \A r \in RecordIds :
              applied'[r] > applied[r] =>
                  \A i \in 1..Len(OperationLogs') : r <= OperationLogs'[i].rid]_vars

\* operations of two records are in the log
CausalOrderCase ==
    /\ QueueCompiled
    /\ \E i, j \in 1..Len(OperationLogs) : OperationLogs[i].rid /= OperationLogs[j].rid

\* C16: the REMOVE operations of siblings removed by one record are applied
\* last sibling first: the one applied stems from a later sibling than any
\* REMOVE of the same record still in the log.
RemovalsLastSiblingFirst ==
    [][(SyncToMirror /\ Last(OperationLogs).op.type = "REMOVE") =>
          LET e == Last(OperationLogs)
              siblings == BatchRecord(e.rid).removedNodes
          IN  \A i \in 1..(Len(OperationLogs) - 1) :
                  (OperationLogs[i].op.type = "REMOVE" /\ OperationLogs[i].rid = e.rid)
                      => IndexOf(siblings, OperationLogs[i].src) < IndexOf(siblings, e.src)]_vars

\* the batch is one record that removes one element
SingleRemoval(b) ==
    /\ Len(b) = 1
    /\ b[1].type = "childList"
    /\ b[1].addedNodes = <<>>
    /\ Len(b[1].removedNodes) = 1
    /\ ~IsText(b[1].removedNodes[1])

\* parent has two or more element children of the tag of n
SameTagChildren(k, parent, n) ==
    Len(SelectSeq(k[parent], LAMBDA c : ~IsText(c) /\ nodeName(c) = nodeName(n))) >= 2

\* the document without the child at loc
WithoutChildAt(doc, loc) ==
    SetAt(doc, Front(loc), [NodeAt(doc, Front(loc)) EXCEPT !.kids = RemoveAt(@, Last(loc))])

\* the batch removes one of several same-tag children, from a mirror that
\* holds the pre-edit content; the rollback has put the child back
RemovedAmongSameTag ==
    /\ QueueCompiled
    /\ SingleRemoval(batch)
    /\ mirrorPre = preEdit
    /\ SameTagChildren(kids, batch[1].target, batch[1].removedNodes[1])

\* C14: removing one child element of a parent with several same-tag
\* children compiles to exactly one REMOVE operation, whose address resolves
\* in the mirror to the corresponding child; after replay the mirror has
\* lost exactly that child and keeps the others in their order.
SingleRemoveReplayed ==
    RemovedAmongSameTag =>
        LET n == batch[1].removedNodes[1] IN
        /\ EmittedFor(batch) = 1
        /\ \A i \in 1..Len(OperationLogs) :
              LET found == getNodeFromXPath(mirror, OperationLogs[i].op.node) IN
              /\ OperationLogs[i].op.type = "REMOVE"
              /\ found /= NoLoc
              /\ NodeAt(mirror, found) = cloneNode(kids, text, n)
        /\ OperationLogs = <<>> =>
              /\ mirror.kids = postEdit
              /\ \E loc \in Locs(BodyOf(mirrorPre)) \ {<<>>} :
                    /\ NodeAt(BodyOf(mirrorPre), loc) = cloneNode(kids, text, n)
                    /\ mirror = WithoutChildAt(BodyOf(mirrorPre), loc)

\* the REMOVE of the first of two paragraphs, addressed by index, is replayed
SingleRemoveReplayedCase ==
    /\ RemovedAmongSameTag
    /\ OperationLogs = <<>>
    /\ batch[1].removedNodes[1] = "p1"
    /\ Len(mirror.kids) = Len(mirrorPre) - 1

\* C20: FinalizeChanges is called exactly once per flush of a non-empty
\* queue, only after every operation of the flush has been applied to the
\* mirror, and before observation is restarted.
FinalizeOncePerFlush ==
    /\ finalized <= 1
    /\ (pc = "idle" /\ batch /= <<>>) => finalized = 1
    /\ finalized = 1 =>
          /\ OperationLogs = <<>>
          /\ \A r \in BatchRids : applied[r] = emitted[r]
    /\ pc = "restart" => (finalized = 1 /\ ~observing)

\* C17: whenever observation is stopped, at the start of a flush or by the
\* cleanup of a re-render or unmount, every record the observer holds
\* undelivered is in the mutation queue afterwards.
StopMergesPending ==
    [][(observing /\ ~observing') =>
          \A i \in 1..Len(records) :
              \E j \in 1..Len(MutationQueue') : MutationQueue'[j] = records[i]]_vars

\* no record is in the queue, or held by the observer, twice
NoDuplicate ==
    LET queue == MutationQueue \o records IN
    \A i, j \in 1..Len(queue) : i /= j => queue[i].rid /= queue[j].rid

\* C18: toggleObserve(false) while observation is stopped, and
\* toggleObserve(true) while it is on, change neither the observation state
\* nor the mutation queue, and no record is ever enqueued twice.
ToggleIdempotent ==
    [][/\ (~observing /\ (EffectCleanup \/ Unmount \/ TimerFire \/ SyncNow))
            => (~observing' /\ MutationQueue' = MutationQueue)
       /\ (observing /\ (Restart \/ EffectSetup))
            => (observing' /\ MutationQueue' = MutationQueue /\ records' = records)
       /\ NoDuplicate']_vars

\* both calls have happened: a stop while stopped and a start while started
ToggleIdempotentCase == redundant = {"start", "stop"}

\* C19: while the watched element or the mirror document is missing since
\* the daemon was initialised, no observation is attached and no flush
\* rolls back or replays anything.
DisabledWithoutRefs ==
    (life = "pending" \/ mirror = NoDocument) => (~observing /\ pc = "idle")

\* the addresses operation op carries
AddressesOf(op) ==
    IF op.type = "TEXT" THEN {op.node}
    ELSE IF op.type = "REMOVE" THEN {op.node, op.parentNode}
    ELSE {op.parentNode}

\* C12: a record with a node that has no address (the node is detached or
\* has no parent, getXPathFromNode returns the empty string) gives no
\* operation: no operation of the log carries an empty address.
NoOperationWithoutAddress ==
    \A i \in 1..Len(OperationLogs) : <<>> \notin AddressesOf(OperationLogs[i].op)

\* C21: at rest (nothing queued, no flush running) the serialized body of
\* the mirror document is the HTML string last handed to the view layer.
MirrorMatchesView ==
    (pc = "idle" /\ MutationQueue \o records = <<>> /\ mirror /= NoDocument)
        => Serialize(mirror.kids) = EditorHTMLString

NewEntries == SubSeq(OperationLogs', Len(OperationLogs) + 1, Len(OperationLogs'))

\* C23: when the compiler takes a record with an ignored node and nodes that
\* are not ignored, the ignored node stays where it is and gives no
\* operation, and every other node of the record is rolled back (a removed
\* node is a child of the target again, an added node is detached) and
\* gives exactly one operation.
IgnoredNodeFrame ==
    [][(CompileRecordExempt /\ ~uncaught') =>
          LET m == Last(MutationQueue)
              nodes == Range(m.removedNodes) \cup Range(m.addedNodes)
              ignored == {n \in nodes : IsIgnored(IgnoreMap, kids, n)}
          IN  (ignored /= {} /\ ignored /= nodes) =>
                  /\ \A n \in ignored :
                        /\ parentNode(kids', n) = parentNode(kids, n)
                        /\ \A i \in 1..Len(NewEntries) : NewEntries[i].src /= n
                  /\ \A n \in nodes \ ignored :
                        /\ Cardinality({i \in 1..Len(NewEntries) : NewEntries[i].src = n}) = 1
                        /\ n \in Range(m.removedNodes) => parentNode(kids', n) = m.target
                        /\ n \in Range(m.addedNodes) => parentNode(kids', n) = None]_vars

\* both paragraphs were removed in one record while the second was ignored:
\* the first is back under the root with one REMOVE operation, the second
\* is still detached
IgnoredNodeFrameCase ==
    /\ pc = "sync"
    /\ Len(batch) = 1
    /\ batch[1].removedNodes = <<"p1", "pa">>
    /\ IgnoreEntry("pa", "any", FALSE) \in IgnoreMap
    /\ Len(OperationLogs) = 1
    /\ OperationLogs[1].op.type = "REMOVE" /\ OperationLogs[1].src = "p1"
    /\ parentNode(kids, "p1") = RootNode
    /\ parentNode(kids, "pa") = None

\* the directive the calls since the last re-render leave: the last of them
LastSet == IF caretSets = <<>> THEN NoCaret ELSE Last(caretSets)

\* C24: at most one caret directive is pending, and it is the one of the
\* latest SetFutureCaret call: a call overwrites an earlier directive that
\* no re-render has consumed; a re-render applies the pending directive and
\* clears it, so that a later re-render with no call before it applies none;
\* nothing else changes the pending directive
CaretDirectiveOnce ==
    [][/\ FutureCaret = LastSet
       /\ FutureCaret' = LastSet'
       /\ rendered' /= rendered =>
              /\ Len(caretLog') = Len(caretLog) + 1
              /\ Last(caretLog').applied = LastSet
              /\ FutureCaret' = NoCaret
       /\ rendered' = rendered =>
              /\ caretLog' = caretLog
              /\ FutureCaret' /= FutureCaret => FutureCaret' \in Directives]_vars

\* C24 happens: a directive set over an unconsumed one was applied to the
\* first re-render, and the second re-render applied none
CaretDirectiveOnceCase ==
    /\ Len(caretLog) = 2
    /\ caretLog[1].sets = <<"PrevElement", "NextLine">>
    /\ caretLog[1].applied = "NextLine"
    /\ caretLog[2].sets = <<>>
    /\ caretLog[2].applied = NoCaret

\* C25: the history buffer never holds more than HistoryLength entries; a
\* flush that reaches its finalize callback pushes exactly one entry, the
\* canonical HTML of that flush, and the oldest entry leaves when the buffer
\* was full; nothing else changes the buffer
HistoryBounded ==
    [][/\ Len(History') <= HistoryLength
       /\ finalizeCalls' = finalizeCalls => History' = History
       /\ finalizeCalls' /= finalizeCalls =>
              /\ finalizeCalls' = finalizeCalls + 1
              /\ History' /= <<>>
              /\ Last(History').html = EditorHTMLString'
              /\ Front(History') =
                    IF Len(History) < HistoryLength THEN History ELSE Tail(History)]_vars

\* C25 happens: a second flush has pushed into a full buffer of one entry,
\* and the entry of the first flush is gone
HistoryBoundedCase ==
    /\ HistoryLength = 1
    /\ finalizeCalls = 2
    /\ Len(History) = 1
    /\ History[1].html = EditorHTMLString
    /\ History[1].html /= Serialize(innerHTML(InitKids, InitText))

\* the records waiting in the daemon's queue or in the observer's
PendingRids == {(MutationQueue \o records)[i].rid : i \in DOMAIN (MutationQueue \o records)}

OverrideHookDecides ==
    (call.handler \in Keys /\ call.hook /= "nohook" /\ call.parent \in {"nohook", "true"}) =>
        (call.generic <=> Awaited(call.hook) = "true")

\* C28: every call of MaskEditingArea returns the unmask callback
MaskReturnsUnmask == call.handler = "MaskEditingArea" => call.ret = "unmask"

UpdateEnqueuesOnce ==
    call.handler = "UpdateComponentAndSync" =>
        IF \/ call.args[2] \in {Null, ""}
           \/ call.args[3] = None
           \/ call.args[1] = Null
           \/ call.args[4] = Null
        THEN call.ops = <<>> /\ call.syncs = 0
        ELSE call.ops = <<HandleOp("REPLACE", call.args[3])>> /\ call.syncs = 1

\* C30 happens: a call with everything in place has added its REPLACE
UpdateEnqueuesOnceCase ==
    /\ call.handler = "UpdateComponentAndSync"
    /\ call.args = <<"handle", "a", "pa", "nodes">>
    /\ call.ops = <<HandleOp("REPLACE", "pa")>>
    /\ call.syncs = 1

\* C40: once the editor is unmounted and the daemon's cleanups have run, a
\* debounce timer that was pending at the cleanup starts no flush when it
\* expires: FlushQueue does not get past its empty-queue check, so
\* FinalizeChanges is not reached either
NoFlushAfterCleanup ==
    [][(life = "unmounted" /\ timer /\ ~timer') => pc' = "idle"]_vars

\* C39: every layout effect, mask call and unmask call that changes a class
\* list leaves exactly one of the editing area and the mask visible: the
\* editing area has the class No-Vis exactly when the mask lacks Hide-It
OneVisible ==
    [][classList' /= classList =>
          (("No-Vis" \in classList'.editor) <=> ("Hide-It" \notin classList'.mask))]_vars

\* C39 witness: a mask call has shown the mask, holding a copy of the
\* content, over the hidden editing area
OneVisibleCase ==
    /\ call.handler = "MaskEditingArea"
    /\ "No-Vis" \in classList.editor
    /\ "Hide-It" \notin classList.mask
    /\ EditorMask = "copy"

\* C37: after any calls of toggleEditingSubElement the flag, once rendered, is
\* true exactly when the editing queue has an entry, and a call with an
\* empty identifier changes neither the queue nor the flag
FlagTracksQueue ==
    /\ [](SettledFlag <=> DOMAIN EditingQueue /= {})
    /\ [][(call'.handler = "toggleEditingSubElement" /\ call'.args[1] \in {"", Undefined})
             => UNCHANGED <<EditingQueue, isEditingSubElement, pendingEditing>>]_vars

\* C37 witness: two entries were queued, the last call removed one of them
\* and the flag stays true
FlagTracksQueueCase ==
    /\ call.handler = "toggleEditingSubElement"
    /\ DOMAIN EditingQueue = {UniqueId(2)}
    /\ call.args[1] \in Identifiers \ DOMAIN EditingQueue
    /\ SettledFlag

\* C38: whenever no sub-element is left with a focusin that no focusout
\* followed, the editing queue is empty and the flag, once rendered, is
\* false, so the daemon observes and the editor is editable again
FocusOutReleases ==
    (hasFocus = {} /\ pendingEditing = <<>>)
        => /\ DOMAIN EditingQueue = {}
           /\ ~isEditingSubElement
           /\ DaemonOptions.IsEditable /\ DaemonOptions.ShouldObserve

\* C36: whenever the selection is collapsed on a node inside the editor
\* whose component keeps an activation function, that component is on top
\* of the active stack and activated
CaretComponentActive ==
    (selection.isCollapsed /\ selection.anchorNode \in EditorNodes
        /\ HasFunc(CompFiberOf(selection.anchorNode)))
    => /\ LastActivationCache /= <<>>
       /\ LastActivationCache[Len(LastActivationCache)].fiber
              = CompFiberOf(selection.anchorNode)
       /\ CompFiberOf(selection.anchorNode) \in activated

\* the component x rendered the component y, directly or through others
RECURSIVE Above(_, _)
Above(x, y) == Return(y) /= Null /\ (Return(y) = x \/ Above(x, Return(y)))

\* the last event moved the caret onto another node, in a component that
\* is not the one on top of the stack
CaretMoved ==
    /\ call.handler = "OnSelectionChange"
    /\ selection.isCollapsed
    /\ selection.anchorNode \in EditorNodes
    /\ switchLog.anchor /= selection.anchorNode
    /\ \/ switchLog.before = <<>>
       \/ switchLog.before[Len(switchLog.before)].fiber /= CompFiberOf(selection.anchorNode)

\* C35: when the caret moves into a different component, the switch first
\* calls the activation function of every stack entry with false, top
\* first, then calls with true the functions of the new component's
\* ancestors, outermost first, and of the component itself last, and the
\* stack afterwards holds exactly the components called with true, in
\* that order
DeactivateThenActivate ==
    CaretMoved =>
        LET calls == switchLog.calls
            n == Len(switchLog.before)
            comp == CompFiberOf(selection.anchorNode)
        IN  /\ Len(calls) >= n
            /\ \A i \in 1..n : calls[i] = [fiber |-> switchLog.before[n + 1 - i].fiber,
                                            arg |-> FALSE]
            /\ \A i \in (n + 1)..Len(calls) : calls[i].arg
            /\ \A i, j \in (n + 1)..Len(calls) :
                   i < j => Above(calls[i].fiber, calls[j].fiber)
            /\ {calls[i].fiber : i \in (n + 1)..Len(calls)}
                   = {f \in Fibers : HasFunc(f) /\ (f = comp \/ Above(f, comp))}
            /\ Len(LastActivationCache) = Len(calls) - n
            /\ \A i \in 1..Len(LastActivationCache) :
                   LastActivationCache[i].fiber = calls[n + i].fiber

\* C35 witness: the caret moved from B into A: B was switched off, then L,
\* Q and A were switched on
DeactivateThenActivateCase ==
    /\ CaretMoved
    /\ switchLog.before /= <<>>
    /\ switchLog.before[1].fiber = "B"
    /\ Len(LastActivationCache) = 3
    /\ LastActivationCache[3].fiber = "A"

\* C32: one Enter key press invokes no component's enter handler twice
NoEnterHandlerTwice ==
    \A i, j \in 1..Len(enter.invoked) : i /= j => enter.invoked[i] /= enter.invoked[j]

\* C34: after a Delete key press on which some invoked delJoining hook gave
\* another result than true, no generic REMOVE or REPLACE was handed to the
\* daemon
JoiningNeedsEveryHook ==
    (/\ keyLog.handler = "DelKeyHandler"
     /\ \E i \in 1..Len(keyLog.invoked) : keyLog.invoked[i] /= "true")
        => \A j \in 1..Len(keyLog.ops) : keyLog.ops[j].type \notin {"REMOVE", "REPLACE"}

\* the lines i and i + 1 of the document are non-empty and no containers
Joinable(i) ==
    /\ i \in 1..(Len(lineDoc) - 1)
    /\ ~IsEmptyLine(lineDoc[i]) /\ ~IsEmptyLine(lineDoc[i + 1])
    /\ ~lineDoc[i].container /\ ~lineDoc[i + 1].container

\* the last key press was Backspace at the start of line i + 1 or Delete at
\* the end of line i, with no component hook present
JoinPressed(i) ==
    /\ Joinable(i)
    /\ \A h \in 1..Len(keyLog.hooks) : keyLog.hooks[h] = "nohook"
    /\ \/ /\ keyLog.handler = "BackSpaceKeyHandler"
          /\ keyLog.caret.line = i + 1
          /\ keyLog.caret.child = 1
          /\ keyLog.caret.pos = "start"
       \/ /\ keyLog.handler = "DelKeyHandler"
          /\ keyLog.caret.line = i
          /\ keyLog.caret.child = Len(lineDoc[i].kids)
          /\ keyLog.caret.pos = "end"

\* the document with line i + 1 gone and line i holding its own children
\* followed by those of line i + 1
JoinedDoc(i) ==
    [j \in 1..(Len(lineDoc) - 1) |->
        IF j < i THEN lineDoc[j]
        ELSE IF j > i THEN lineDoc[j + 1]
        ELSE [id |-> lineDoc[i].id, container |-> FALSE,
              kids |-> [n \in 1..(Len(lineDoc[i].kids) + Len(lineDoc[i + 1].kids)) |->
                           IF n <= Len(lineDoc[i].kids) THEN lineDoc[i].kids[n]
                           ELSE lineDoc[i + 1].kids[n - Len(lineDoc[i].kids)]]]]

\* C33: Backspace at the start of the second of two adjacent non-empty,
\* non-container lines and Delete at the end of the first, without component
\* hooks, hand over operations with the same effect: the second line is
\* removed and the first holds its children followed by the second's
JoiningSymmetric ==
    \A i \in 1..Len(lineDoc) : JoinPressed(i) => keyLog.after = JoinedDoc(i)

JoiningSymmetricCase ==
    \E i \in 1..Len(lineDoc) :
        /\ JoinPressed(i)
        /\ keyLog.handler = "BackSpaceKeyHandler"
        /\ Len(keyLog.ops) = 2
        /\ Len(keyLog.after[i].kids) = 3

\* the last key press was Enter and reached the generic handling
EnterPressed == keyLog.handler = "EnterKeyHandler" /\ keyLog.generic

\* where the caret of the key press was on its line
OnEmptyLine == IsEmptyLine(lineDoc[keyLog.caret.line])
AtLineStart == ~OnEmptyLine /\ keyLog.caret.child = 1 /\ keyLog.caret.pos = "start"
AtLineEnd ==
    /\ ~OnEmptyLine /\ ~AtLineStart
    /\ keyLog.caret.child = Len(lineDoc[keyLog.caret.line].kids)
    /\ keyLog.caret.pos = "end"
InMidLine == ~OnEmptyLine /\ ~AtLineStart /\ ~AtLineEnd

\* the key press handed over exactly one ADD, of a new paragraph under the
\* root, before the current line (empty line, start of line) or before the
\* current line's next sibling (mid line, end of line), set the caret
\* directive NextLine and asked for one sync
BreaksLine ==
    /\ Cardinality({j \in 1..Len(keyLog.ops) : keyLog.ops[j].type = "ADD"}) = 1
    /\ \A j \in 1..Len(keyLog.ops) :
           keyLog.ops[j].type = "ADD" =>
               /\ keyLog.ops[j].parentXP = "//body"
               /\ keyLog.ops[j].newNode.id = "new"
               /\ ~keyLog.ops[j].newNode.container
               /\ keyLog.ops[j].siblingNode =
                      IF OnEmptyLine \/ AtLineStart
                      THEN lineDoc[keyLog.caret.line].id
                      ELSE NextSibling(lineDoc, keyLog.caret.line)
    /\ keyLog.directive = "NextLine"
    /\ keyLog.syncs = 1

\* C31 as stated: every branch of the generic Enter handling, on an empty
\* line, at the start, in the middle or at the end of a line, hands over
\* exactly one ADD of a new paragraph at its place, sets NextLine and asks
\* for one sync
EnterAlwaysBreaksLine == EnterPressed => BreaksLine

\* C31 amended: the same, except in the middle of a line with the caret on
\* an element itself and not on a text node, where nothing is handed over,
\* no directive is set and no sync is asked for
EnterBreaksLine ==
    EnterPressed =>
        IF InMidLine /\ keyLog.caret.node = "tag"
        THEN keyLog.ops = <<>> /\ keyLog.directive = NoCaret /\ keyLog.syncs = 0
        ELSE BreaksLine

EnterBreaksLineCase ==
    /\ EnterPressed
    /\ InMidLine
    /\ keyLog.caret.node = "text"
    /\ Len(keyLog.ops) = 3
    /\ Len(keyLog.after) = Len(lineDoc) + 1
====
